---- MODULE Spec2Model ----
(***************************************************************************)
(* Model of the price cache of CoinMarketCapApi (src/api_coinmarketcap.py) *)
(* and of the callers that share it between threads (src/main.py): the     *)
(* poll cycle on_get_price, the alert pass on_check_notifications and the  *)
(* bot handlers.                                                           *)
(*                                                                         *)
(* Granularity.  A step is one access to the shared cache (one read or one *)
(* assignment of self._cache_data / self._index_by_symbol /                *)
(* self._last_update_ts), one `with self._lock` block that only reads, or  *)
(* one upstream HTTP request.  Computation on locals is folded into the    *)
(* shared access that precedes it.  The content of an upstream answer is   *)
(* drawn when it is first used (nothing observes it earlier).              *)
(*                                                                         *)
(* CryptoBrief keeps symbol, name, price, price_change, previous_price; id,*)
(* convert_currency and last_updated are never read by the modelled code.  *)
(* Positions are 1-based here and 0-based in the source.                   *)
(***************************************************************************)
EXTENDS Integers, Sequences, FiniteSets, TLC

\* ------------------------------------------------------------------ bounds
MaxPrice == 2
MaxListing == 2
MaxOps == 1
MaxCycles == 1
MaxTokens == 1
MaxRules == 1
MaxBudget == 12
MaxDaysInMonth == 3
MaxSlots == 2
MaxPollDays == 2
LongCallback == 10
MaxStops == 2
MaxCapacity == 2

\* --------------------------------------------------------------- constants
\* previous_price of a record with no prior observation
Sentinel == -1
\* Python's None as a previous_price (find_coin's insertion)
NoneValue == -2

Symbols == {"BTC", "ETH"}
Names == {"bitcoin", "ethereum"}
Tokens == Symbols \cup Names
Prices == 1..MaxPrice
Threads == {"poller", "notify", "bot"}
NoOwner == "free"

UP == "up"
DOWN == "down"
SAME == "unchanged"
STAR == "uninitialized"

NameOf(sym) == IF sym = "BTC" THEN "bitcoin" ELSE "ethereum"
SymbolOfName(n) == IF n = "bitcoin" THEN "BTC" ELSE "ETH"

\* str.upper() / str.lower() on the tokens of the model
Upper(x) ==
    CASE x = "bitcoin" -> "BITCOIN"
      [] x = "ethereum" -> "ETHEREUM"
      [] OTHER -> x
Lower(x) ==
    CASE x = "BTC" -> "btc"
      [] x = "ETH" -> "eth"
      [] OTHER -> x

\* ------------------------------------------------------------ pure helpers
get_simvol_swapped(prev, price) ==
    IF price > prev THEN DOWN ELSE IF price < prev THEN UP ELSE SAME

get_simvol(prev, price) ==
    IF price > prev THEN UP ELSE IF price < prev THEN DOWN ELSE SAME

is_between(x, now, triger) ==
    IF triger = ">" /\ now > x THEN TRUE
    ELSE IF triger = "<" /\ now < x THEN TRUE
    ELSE FALSE

CryptoBrief(sym, price, change, prev) ==
    [symbol |-> sym, name |-> NameOf(sym), price |-> price,
     price_change |-> change, previous_price |-> prev]

RECURSIVE MaxOf(_)
MaxOf(S) ==
    LET x == CHOOSE y \in S : TRUE
    IN IF Cardinality(S) = 1 THEN x
       ELSE LET m == MaxOf(S \ {x}) IN IF x > m THEN x ELSE m

SymbolsOf(data) == {data[i].symbol : i \in DOMAIN data}
NamesOf(data) == {data[i].name : i \in DOMAIN data}

\* {cb.symbol: i for i, cb in enumerate(new_tuple)}: a later position wins
MakeIndex(data) ==
    [s \in SymbolsOf(data) |-> MaxOf({i \in DOMAIN data : data[i].symbol = s})]

\* {cb.symbol: cb.price for cb in self._cache_data}: a later record wins
PrevPrices(data) ==
    [s \in SymbolsOf(data) |-> data[MakeIndex(data)[s]].price]

\* prev_prices.get(sym), then `if prev is None: prev = -1`
PrevOrSentinel(prev_prices, sym) ==
    IF sym \in DOMAIN prev_prices THEN prev_prices[sym] ELSE Sentinel

\* ------------------------------------------------------------------- state
VARIABLES
    cache_data,        \* self._cache_data: tuple of CryptoBrief
    index_by_symbol,   \* self._index_by_symbol: symbol -> position
    last_update_ts,    \* self._last_update_ts (0.0 at construction), a logical clock
    lock_owner,        \* self._lock: the thread inside `with self._lock`, or NoOwner
    pc,                \* per thread: the statement it is at
    stack,             \* per thread: return labels of the calls in progress
    loc,               \* per thread: the locals of the calls in progress
    retval,            \* per thread: value returned by the call that last returned
    result,            \* per thread: outcome of its last top-level operation
    ops,               \* bot handler invocations so far
    cycles,            \* poll cycles (on_get_price) started so far
    pending_pass,      \* thread_notify objects started and not yet running
    fired,             \* rules notified and deleted by the last on_check_notifications
    prewarmed,         \* history: the records the last pre-warm upsert of a poll cycle added
    rcall,             \* history: per thread, the _refresh_once call in progress or last ended
    last_commit,       \* history: the last assignment of self._cache_data
    sched_in,          \* the arguments generate_schedule is called with
    sched,             \* the dict generate_schedule returned (or the error it raised)
    tm_times,          \* TimerScheduler: daily_times and daily_window_indices
    tm_pc,             \* TimerScheduler: where _run_loop is
    tm_now,            \* the clock, in seconds since the midnight (in tz_out) of day 0
    tz_back,           \* the tm_now at which tz_out's wall clock is set back an hour
                       \* (the end of daylight saving time), NoneValue for never
    tm_started,        \* history: the clock when start() was called
    tm_next,           \* _run_loop: next_dt and idx
    tm_stop,           \* TimerScheduler._stop_event
    tm_fired,          \* history: <<day, slot>> of every signal put and callback made
    requests,          \* history: upstream requests sent by the scheduled poll cycles
    tm_queue,          \* TimerScheduler.signal_queue: the signals waiting, see Signal
    tm_last_fired,     \* TimerScheduler._last_fired_time: <<>> for None, or <<clock>>
    tm_last_cb,        \* history: how the last callback ended
    tm_restart,        \* history: <<tm_stops>> as the last start() that followed a
                       \* stop() returned, <<>> before
    tm_stops,          \* history: calls of stop() so far
    tm_join,           \* the join() of a stop(wait=True), and the signals when it returned
    tm_stop_rec,       \* history: the loop's phase and signals at the first stop() of a run
    tm_gap             \* history: the loop's longest last sleep between two looks at the
                       \* stop event, in tenths of a second

cacheVars == <<cache_data, index_by_symbol, last_update_ts, lock_owner>>
envVars == <<ops, cycles, pending_pass, fired, prewarmed>>
tmHist == <<tm_queue, tm_last_fired, tm_last_cb, tm_restart, tm_stops, tm_join, tm_stop_rec, tm_gap>>
schedVars == <<sched_in, sched, tm_times, tm_pc, tm_now, tz_back, tm_started, tm_next, tm_stop,
               tm_fired, requests, tmHist>>
vars == <<cache_data, index_by_symbol, last_update_ts, lock_owner, pc, stack, loc,
          retval, result, ops, cycles, pending_pass, fired, prewarmed, rcall, last_commit,
          sched_in, sched, tm_times, tm_pc, tm_now, tz_back, tm_started, tm_next, tm_stop,
          tm_fired, requests, tm_queue, tm_last_fired, tm_last_cb, tm_restart, tm_stops,
          tm_join, tm_stop_rec, tm_gap>>
cbVars == <<cacheVars, pc, stack, loc, retval, result, envVars, rcall, last_commit>>

EmptyLoc ==
    [op |-> "none", symbol |-> "", idx |-> 0,
     tokens |-> {}, replace |-> FALSE, cached_at_call |-> {},
     prev_prices |-> <<>>, tokens_to_query |-> {}, new_items |-> <<>>,
     unresolved |-> {}, price_bound |-> FALSE, quoted |-> {},
     lookup |-> "", ret_cb |-> <<>>,
     rules |-> {}, todo |-> {}, coins |-> <<>>,
     limit |-> 0, convert |-> ""]

\* What stays readable of an operation's locals once it has ended: its
\* arguments and what the formulas below read of its outcome.
AtEnd(l) ==
    [EmptyLoc EXCEPT !.op = l.op, !.symbol = l.symbol, !.tokens = l.tokens,
                     !.replace = l.replace, !.cached_at_call = l.cached_at_call,
                     !.quoted = l.quoted, !.rules = l.rules, !.coins = l.coins]

NoCall == [phase |-> "none", via |-> "none", snap |-> <<>>]
NoCommit == [kind |-> "none", by |-> "none", old_data |-> <<>>, items |-> {},
             fetched |-> <<>>, clean |-> FALSE]

\* Before main.py line 588: no schedule generated, no TimerScheduler built
NoInput == [limit_per_month |-> 0, days_in_month |-> 1, weights |-> <<>>,
            tz_out |-> "none", utc_offset |-> 0, use_all_budget |-> FALSE]

NoSchedule == [status |-> "none", daily_requests |-> 0, monthly_used |-> 0,
               residual_monthly |-> 0, requests |-> <<>>,
               daily_times_flat |-> <<>>, daily_times_window_index |-> <<>>]

NoTimes == [daily_times |-> <<>>, daily_window_indices |-> <<>>]

NoJoin == [state |-> "none", signals |-> 0]
NoStopRec == [phase |-> "none", signals |-> 0]

\* TimerScheduler.__init__ lines 161-164: nothing queued, stopped, fired
NoLoopHistory ==
    /\ tm_queue = <<>>
    /\ tm_last_fired = <<>>
    /\ tm_last_cb = "none"
    /\ tm_restart = <<>>
    /\ tm_stops = 0
    /\ tm_join = NoJoin
    /\ tm_stop_rec = NoStopRec
    /\ tm_gap = 0

NoScheduler ==
    /\ sched_in = NoInput
    /\ sched = NoSchedule
    /\ tm_times = NoTimes
    /\ tm_pc = "none"
    /\ tm_now = 0
    /\ tz_back = NoneValue
    /\ tm_started = 0
    /\ tm_next = <<>>
    /\ tm_stop = FALSE
    /\ tm_fired = {}
    /\ requests = 0
    /\ NoLoopHistory

\* CoinMarketCapApi.__init__ and the handlers' threads before their first call
ColdStart ==
    /\ cache_data = <<>>
    /\ index_by_symbol = <<>>
    /\ last_update_ts = 0
    /\ lock_owner = NoOwner
    /\ pc = [t \in Threads |-> "idle"]
    /\ stack = [t \in Threads |-> <<>>]
    /\ loc = [t \in Threads |-> EmptyLoc]
    /\ retval = [t \in Threads |-> <<>>]
    /\ result = [t \in Threads |-> [op |-> "none", status |-> "none", value |-> <<>>]]
    /\ ops = 0
    /\ cycles = 0
    /\ pending_pass = 0
    /\ fired = {}
    /\ prewarmed = <<>>
    /\ rcall = [t \in Threads |-> NoCall]
    /\ last_commit = NoCommit

Init == ColdStart /\ NoScheduler

\* ----------------------------------------------------- calls and exceptions
\* Each of these takes l, the thread's locals after the step.
RECURSIVE AfterFrame(_, _)
AfterFrame(stk, label) ==
    IF stk = <<>> THEN <<>>
    ELSE IF Head(stk) = label THEN Tail(stk)
    ELSE AfterFrame(Tail(stk), label)

InStack(stk, label) == \E i \in DOMAIN stk : stk[i] = label

Goto(t, label, l) ==
    /\ pc' = [pc EXCEPT ![t] = label]
    /\ loc' = [loc EXCEPT ![t] = l]
    /\ UNCHANGED <<stack, retval, result>>

Call(t, target, rets, l) ==
    /\ pc' = [pc EXCEPT ![t] = target]
    /\ stack' = [stack EXCEPT ![t] = rets \o @]
    /\ loc' = [loc EXCEPT ![t] = l]
    /\ UNCHANGED <<retval, result>>

\* `return val`: back to the caller, or the end of the thread's operation
Return(t, val, l) ==
    IF stack[t] = <<>>
    THEN /\ pc' = [pc EXCEPT ![t] = "idle"]
         /\ result' = [result EXCEPT ![t] =
                          [op |-> l.op, status |-> "ok", value |-> val]]
         /\ retval' = [retval EXCEPT ![t] = <<>>]
         /\ loc' = [loc EXCEPT ![t] = AtEnd(l)]
         /\ UNCHANGED stack
    ELSE /\ pc' = [pc EXCEPT ![t] = Head(stack[t])]
         /\ stack' = [stack EXCEPT ![t] = Tail(@)]
         /\ retval' = [retval EXCEPT ![t] = val]
         /\ loc' = [loc EXCEPT ![t] = l]
         /\ UNCHANGED result

\* `raise`: the only handler on the modelled call paths that catches an
\* exception of a callee is the try/except around find_coin in
\* add_symbols_to_cache (cb = None); anything else ends the operation.
Raise(t, exc, l) ==
    IF InStack(stack[t], "a_fb_ret")
    THEN /\ pc' = [pc EXCEPT ![t] = "a_fb_ret"]
         /\ stack' = [stack EXCEPT ![t] = AfterFrame(@, "a_fb_ret")]
         /\ retval' = [retval EXCEPT ![t] = <<>>]
         /\ loc' = [loc EXCEPT ![t] = l]
         /\ UNCHANGED result
    ELSE /\ pc' = [pc EXCEPT ![t] = "idle"]
         /\ stack' = [stack EXCEPT ![t] = <<>>]
         /\ result' = [result EXCEPT ![t] =
                          [op |-> l.op, status |-> exc, value |-> <<>>]]
         /\ retval' = [retval EXCEPT ![t] = <<>>]
         /\ loc' = [loc EXCEPT ![t] = AtEnd(l)]

\* History of refresh calls: rcall[t].snap is the cache as _refresh_once found
\* it when t called it, until another thread writes the cache (then <<>>); a
\* later write by t itself (upsert, find_coin) ends the record of the call.
Snapshot == <<cache_data, index_by_symbol, last_update_ts>>

ForeignWrite(t) ==
    [u \in Threads |-> IF u = t THEN rcall[u] ELSE [rcall[u] EXCEPT !.snap = <<>>]]

Running(via) == [phase |-> "running", via |-> via, snap |-> Snapshot]
Failed(rc) == [rc EXCEPT !.phase = "failed"]

\* ----------------------------------------------- _refresh_once (lines 282-356)
\* Entered at "r_req" from force_refresh or from a bootstrap
\* (_refresh_once_blocking, lines 275-280, which re-raises as RuntimeError).
\* An entry of payload["data"]: with a quote holding a price ("ok"), without a
\* quote in the requested unit ("noquote": skipped by `continue`), or with a
\* quote whose price is missing or null ("noprice": q["price"] / float raise).
ListingEntries ==
    [kind : {"ok"}, symbol : Symbols, price : Prices]
        \cup [kind : {"noquote", "noprice"}, symbol : {"BTC"}, price : {1}]

Listings == UNION {[1..n -> ListingEntries] : n \in 0..MaxListing}

OkEntries(listing) == SelectSeq(listing, LAMBDA e : e.kind = "ok")

\* lines 328-348 without the lookup of the previous cache's price
BuildRecordNoBaseline(e, prev_prices) ==
    CryptoBrief(e.symbol, e.price, get_simvol(Sentinel, e.price), Sentinel)

\* lines 328-348: one CryptoBrief of new_list
BuildRecord(e, prev_prices) ==
    LET prev == PrevOrSentinel(prev_prices, e.symbol)
    IN CryptoBrief(e.symbol, e.price, get_simvol(prev, e.price), prev)

BuildList(listing, prev_prices) ==
    LET oks == OkEntries(listing)
    IN [i \in DOMAIN oks |-> BuildRecord(oks[i], prev_prices)]

\* lines 300-313: the first GET and the checks on its answer
RefreshRequest(t) ==
    /\ pc[t] = "r_req"
    /\ \/ \* status 200, error_code 0
          Goto(t, "r_snap", loc[t]) /\ UNCHANGED rcall
       \/ \* status 429: sleep, then once more
          Goto(t, "r_retry", loc[t]) /\ UNCHANGED rcall
       \/ \* transport error, raise_for_status, or error_code != 0
          /\ Raise(t, "RuntimeError", loc[t])
          /\ rcall' = [rcall EXCEPT ![t] = Failed(@)]
    /\ UNCHANGED <<cacheVars, envVars, schedVars, last_commit>>

\* _refresh_once retrying in a loop: a 429 to the repeated GET sleeps and
\* sends the request again
RefreshRetryAgain(t) ==
    /\ pc[t] = "r_retry"
    /\ \/ Goto(t, "r_snap", loc[t]) /\ UNCHANGED rcall
       \/ Goto(t, "r_req", loc[t]) /\ UNCHANGED rcall
       \/ /\ Raise(t, "RuntimeError", loc[t])
          /\ rcall' = [rcall EXCEPT ![t] = Failed(@)]
    /\ UNCHANGED <<cacheVars, envVars, schedVars, last_commit>>

\* lines 301-313: the GET repeated once after a 429
RefreshRetry(t) ==
    /\ pc[t] = "r_retry"
    /\ \/ \* status 200, error_code 0
          Goto(t, "r_snap", loc[t]) /\ UNCHANGED rcall
       \/ \* transport error, raise_for_status (429 again included), error_code != 0
          /\ Raise(t, "RuntimeError", loc[t])
          /\ rcall' = [rcall EXCEPT ![t] = Failed(@)]
    /\ UNCHANGED <<cacheVars, envVars, schedVars, last_commit>>

Parses(listing) == \A i \in DOMAIN listing : listing[i].kind # "noprice"

\* _refresh_once emptying the cache before it rebuilds it: an entry that
\* cannot be parsed then leaves the empty cache behind
RefreshBuildClearsFirst(t) ==
    /\ pc[t] = "r_snap"
    /\ lock_owner = NoOwner
    /\ \/ /\ \E listing \in Listings : ~Parses(listing)
          /\ cache_data' = <<>>
          /\ index_by_symbol' = <<>>
          /\ Raise(t, "RuntimeError", loc[t])
          /\ rcall' = [rcall EXCEPT ![t] = Failed(@)]
       \/ /\ Goto(t, "r_commit", [loc[t] EXCEPT !.prev_prices = PrevPrices(cache_data)])
          /\ UNCHANGED <<rcall, cache_data, index_by_symbol>>
    /\ UNCHANGED <<last_update_ts, lock_owner, envVars, schedVars, last_commit>>

\* lines 315-348: prev_prices under the lock, then the loop over the payload,
\* which raises on an entry it cannot parse.  (The entries of a payload that
\* parses are drawn in RefreshCommitData: new_list is local until then.)
RefreshBuild(t) ==
    /\ pc[t] = "r_snap"
    /\ lock_owner = NoOwner
    /\ \/ /\ \E listing \in Listings : ~Parses(listing)
          /\ Raise(t, "RuntimeError", loc[t])
          /\ rcall' = [rcall EXCEPT ![t] = Failed(@)]
       \/ /\ Goto(t, "r_commit", [loc[t] EXCEPT !.prev_prices = PrevPrices(cache_data)])
          /\ UNCHANGED rcall
    /\ UNCHANGED <<cacheVars, envVars, schedVars, last_commit>>

\* lines 351-354: take the lock, self._cache_data = new_tuple
RefreshCommitData(t) ==
    /\ pc[t] = "r_commit"
    /\ lock_owner = NoOwner
    /\ lock_owner' = t
    /\ \E listing \in Listings :
         /\ Parses(listing)
         /\ cache_data' = BuildList(listing, loc[t].prev_prices)
         /\ last_commit' = [kind |-> "refresh", by |-> t, old_data |-> cache_data,
                            items |-> {}, fetched |-> OkEntries(listing),
                            clean |-> rcall[t].snap # <<>>]
    /\ rcall' = ForeignWrite(t)
    /\ Goto(t, "r_commit2", [loc[t] EXCEPT !.prev_prices = <<>>])
    /\ UNCHANGED <<index_by_symbol, last_update_ts, envVars, schedVars>>

\* lines 355-356: self._index_by_symbol = new_index, the timestamp, release
RefreshCommitIndex(t) ==
    /\ pc[t] = "r_commit2"
    /\ lock_owner = t
    /\ index_by_symbol' = MakeIndex(cache_data)
    /\ last_update_ts' = last_update_ts + 1
    /\ lock_owner' = NoOwner
    /\ rcall' = [ForeignWrite(t) EXCEPT ![t] = [@ EXCEPT !.phase = "done", !.snap = <<>>]]
    /\ last_commit' = NoCommit
    /\ Return(t, <<>>, loc[t])
    /\ UNCHANGED <<cache_data, envVars, schedVars>>

\* ------------------------------------------- get_by_symbol (lines 148-160)
\* line 154: `if not self._cache_data` -> blocking bootstrap refresh
GetCheck(t) ==
    /\ pc[t] = "g_check"
    /\ IF cache_data = <<>>
       THEN Call(t, "r_req", <<"g_idx">>, loc[t]) /\ rcall' = [rcall EXCEPT ![t] = Running("bootstrap")]
       ELSE Goto(t, "g_idx", loc[t]) /\ UNCHANGED rcall
    /\ UNCHANGED <<cacheVars, envVars, schedVars, last_commit>>

\* lines 157-159: idx = self._index_by_symbol.get(symbol.upper())
GetIndex(t) ==
    /\ pc[t] = "g_idx"
    /\ IF loc[t].symbol \in DOMAIN index_by_symbol
       THEN Goto(t, "g_data", [loc[t] EXCEPT !.idx = index_by_symbol[loc[t].symbol]])
       ELSE Return(t, <<>>, loc[t])
    /\ UNCHANGED <<cacheVars, envVars, schedVars, rcall, last_commit>>

\* line 160: return self._cache_data[idx]
GetData(t) ==
    /\ pc[t] = "g_data"
    /\ IF loc[t].idx \in DOMAIN cache_data
       THEN Return(t, <<cache_data[loc[t].idx]>>, [loc[t] EXCEPT !.idx = 0])
       ELSE Raise(t, "IndexError", [loc[t] EXCEPT !.idx = 0])
    /\ UNCHANGED <<cacheVars, envVars, schedVars, rcall, last_commit>>

\* ------------------------------------------ get_all_cached (lines 134-146)
AllCachedCheck(t) ==
    /\ pc[t] = "c_check"
    /\ IF cache_data = <<>>
       THEN Call(t, "r_req", <<"c_read">>, loc[t]) /\ rcall' = [rcall EXCEPT ![t] = Running("bootstrap")]
       ELSE Goto(t, "c_read", loc[t]) /\ UNCHANGED rcall
    /\ UNCHANGED <<cacheVars, envVars, schedVars, last_commit>>

\* lines 143-145.  The snapshot returned here and by add_symbols_to_cache is
\* read by none of the callers (main.py line 134 drops it): not kept.
AllCachedRead(t) ==
    /\ pc[t] = "c_read"
    /\ lock_owner = NoOwner
    /\ Return(t, <<>>, loc[t])
    /\ UNCHANGED <<cacheVars, envVars, schedVars, rcall, last_commit>>

\* ------------------------------------------------- get_top (lines 99-132)
\* main.py line 62: CoinMarketCapApi(..., default_convert="USD", ...)
default_convert == "USD"

\* self._cache_data[:limit]
TopOf(data, limit) ==
    SubSeq(data, 1, IF limit < Len(data) THEN limit ELSE Len(data))

\* lines 104-107: `if not self._cache_data` -> blocking bootstrap refresh
TopCheck(t) ==
    /\ pc[t] = "t_check"
    /\ IF cache_data = <<>>
       THEN Call(t, "r_req", <<"t_lock">>, loc[t]) /\ rcall' = [rcall EXCEPT ![t] = Running("bootstrap")]
       ELSE Goto(t, "t_lock", loc[t]) /\ UNCHANGED rcall
    /\ UNCHANGED <<cacheVars, envVars, schedVars, last_commit>>

\* lines 109-112 and 132: `with self._lock`.  For the default unit the slice is
\* returned and the lock released at once; so it is when there are no symbols
\* to quote (get_prices_info returns {} without a request, lines 167-169).
\* Otherwise get_prices_info is called on line 113 with the lock held.
TopLock(t) ==
    /\ pc[t] = "t_lock"
    /\ lock_owner = NoOwner
    /\ IF loc[t].convert = default_convert
       THEN Return(t, TopOf(cache_data, loc[t].limit), loc[t]) /\ UNCHANGED lock_owner
       ELSE IF TopOf(cache_data, loc[t].limit) = <<>>
       THEN Return(t, <<>>, loc[t]) /\ UNCHANGED lock_owner
       ELSE Goto(t, "t_req", loc[t]) /\ lock_owner' = t
    /\ UNCHANGED <<cache_data, index_by_symbol, last_update_ts, envVars, schedVars,
                   rcall, last_commit>>

\* lines 113-131 with get_prices_info (lines 181-197): the GET to
\* quotes/latest; the `with` block releases the lock however it is left
TopRequest(t) ==
    /\ pc[t] = "t_req"
    /\ lock_owner = t
    /\ \/ \* transport error, raise_for_status, or error_code != 0
          Raise(t, "RuntimeError", loc[t])
       \/ \* no requested symbol is quoted in the answer: every `info` is None
          Return(t, <<>>, loc[t])
       \/ \* a symbol is quoted: CryptoBrief(...) of lines 120-128 lacks the
          \* required field previous_price (data_models.py line 169)
          Raise(t, "TypeError", loc[t])
    /\ lock_owner' = NoOwner
    /\ UNCHANGED <<cache_data, index_by_symbol, last_update_ts, envVars, schedVars,
                   rcall, last_commit>>

\* ------------------------------------------- get_by_symbols (lines 757-776)
\* line 768, or `return tuple()` for no symbols (line 766)
ManyCheck(t) ==
    /\ pc[t] = "s_check"
    /\ IF loc[t].todo = {}
       THEN Return(t, <<>>, loc[t]) /\ UNCHANGED rcall
       ELSE IF cache_data = <<>>
            THEN Call(t, "r_req", <<"s_idx">>, loc[t]) /\ rcall' = [rcall EXCEPT ![t] = Running("bootstrap")]
            ELSE Goto(t, "s_idx", loc[t]) /\ UNCHANGED rcall
    /\ UNCHANGED <<cacheVars, envVars, schedVars, last_commit>>

\* line 773: idx = self._index_by_symbol.get(sym.upper()) for the next symbol
ManyIndex(t) ==
    /\ pc[t] = "s_idx"
    /\ IF loc[t].todo = {}
       THEN Return(t, loc[t].coins, loc[t])
       ELSE \E sym \in loc[t].todo :
              IF sym \in DOMAIN index_by_symbol
              THEN Goto(t, "s_data", [loc[t] EXCEPT !.idx = index_by_symbol[sym],
                                                    !.todo = @ \ {sym}])
              ELSE Goto(t, "s_idx", [loc[t] EXCEPT !.todo = @ \ {sym}])
    /\ UNCHANGED <<cacheVars, envVars, schedVars, rcall, last_commit>>

\* line 775: result.append(self._cache_data[idx])
ManyData(t) ==
    /\ pc[t] = "s_data"
    /\ IF loc[t].idx \in DOMAIN cache_data
       THEN Goto(t, "s_idx", [loc[t] EXCEPT !.coins = Append(@, cache_data[loc[t].idx]),
                                            !.idx = 0])
       ELSE Raise(t, "IndexError", [loc[t] EXCEPT !.idx = 0])
    /\ UNCHANGED <<cacheVars, envVars, schedVars, rcall, last_commit>>

\* ------------------------------------------------ find_coin (lines 374-549)
\* price_change of the CryptoBrief find_coin returns for a network hit
EMPTY == ""

\* lines 387-388 and 465: bootstrap if empty, then get_by_symbol(lookup.upper())
FindCheck(t) ==
    /\ pc[t] = "f_check"
    /\ LET l == [loc[t] EXCEPT !.symbol = Upper(loc[t].lookup), !.ret_cb = <<>>]
       IN IF cache_data = <<>>
          THEN /\ Call(t, "r_req", <<"g_check", "f_sym_ret">>, l)
               /\ rcall' = [rcall EXCEPT ![t] = Running("bootstrap")]
          ELSE /\ Call(t, "g_check", <<"f_sym_ret">>, l)
               /\ UNCHANGED rcall
    /\ UNCHANGED <<cacheVars, envVars, schedVars, last_commit>>

\* lines 466-468: a cache hit by symbol ends the lookup
FindSymbolReturn(t) ==
    /\ pc[t] = "f_sym_ret"
    /\ IF retval[t] # <<>>
       THEN Return(t, retval[t], loc[t])
       ELSE Goto(t, "f_name", loc[t])
    /\ UNCHANGED <<cacheVars, envVars, schedVars, rcall, last_commit>>

\* lines 471-479: linear scan by name under the lock
FindByName(t) ==
    /\ pc[t] = "f_name"
    /\ lock_owner = NoOwner
    /\ LET hits == {i \in DOMAIN cache_data : cache_data[i].name = Lower(loc[t].lookup)}
       IN IF hits # {}
          THEN Return(t, <<cache_data[CHOOSE i \in hits : \A j \in hits : i <= j]>>, loc[t])
          ELSE Goto(t, "f_net", loc[t])
    /\ UNCHANGED <<cacheVars, envVars, schedVars, rcall, last_commit>>

\* The coin the upstream API can resolve a token to: by symbol (lines 491-513)
\* or, failing that, by slug (lines 515-542).
Resolvable(tok) ==
    IF Upper(tok) \in Symbols THEN {Upper(tok)}
    ELSE IF Lower(tok) \in Names THEN {SymbolOfName(Lower(tok))}
    ELSE {}

\* find_coin without the try/except around its fallback lookups: an error of
\* one of the three GETs leaves find_coin
FindNetworkUncaught(t) ==
    /\ pc[t] = "f_net"
    /\ \/ Return(t, <<>>, loc[t])
       \/ Raise(t, "RequestException", loc[t])
       \/ \E sym \in Resolvable(loc[t].lookup), price \in Prices :
            Goto(t, "e_check",
                 [loc[t] EXCEPT !.ret_cb = <<CryptoBrief(sym, price, EMPTY, Sentinel)>>])
    /\ UNCHANGED <<cacheVars, envVars, schedVars, rcall, last_commit>>

\* lines 481-545: the network fallback; any exception is caught (line 543)
FindNetwork(t) ==
    /\ pc[t] = "f_net"
    /\ \/ \* a miss, or an exception caught by `except Exception`
          Return(t, <<>>, loc[t])
       \/ \E sym \in Resolvable(loc[t].lookup), price \in Prices :
            Goto(t, "e_check",
                 [loc[t] EXCEPT !.ret_cb = <<CryptoBrief(sym, price, EMPTY, Sentinel)>>])
    /\ UNCHANGED <<cacheVars, envVars, schedVars, rcall, last_commit>>

\* lines 399-402: _ensure_in_cache_from_symbol_data, `already` under the lock
EnsureCheck(t) ==
    /\ pc[t] = "e_check"
    /\ lock_owner = NoOwner
    /\ IF loc[t].ret_cb[1].symbol \in DOMAIN index_by_symbol
       THEN Return(t, loc[t].ret_cb, [loc[t] EXCEPT !.ret_cb = <<>>])
       ELSE Goto(t, "e_commit", loc[t])
    /\ UNCHANGED <<cacheVars, envVars, schedVars, rcall, last_commit>>

\* lines 431-455: re-check under the lock, append, self._cache_data = new_tuple
EnsureCommitData(t) ==
    /\ pc[t] = "e_commit"
    /\ lock_owner = NoOwner
    /\ LET cb == loc[t].ret_cb[1]
       IN IF cb.symbol \in DOMAIN index_by_symbol
          THEN /\ Return(t, loc[t].ret_cb, [loc[t] EXCEPT !.ret_cb = <<>>])
               /\ UNCHANGED <<cacheVars, rcall, last_commit>>
          ELSE /\ lock_owner' = t
               /\ cache_data' = Append(cache_data,
                                       CryptoBrief(cb.symbol, cb.price, STAR, NoneValue))
               /\ last_commit' = [kind |-> "find_coin", by |-> t, old_data |-> cache_data,
                                  items |-> {cb.symbol}, fetched |-> <<>>, clean |-> FALSE]
               /\ rcall' = [ForeignWrite(t) EXCEPT ![t] = NoCall]
               /\ Goto(t, "e_commit2", loc[t])
               /\ UNCHANGED <<index_by_symbol, last_update_ts>>
    /\ UNCHANGED <<envVars, schedVars>>

\* lines 456-457: self._index_by_symbol = new_index, the timestamp, release
EnsureCommitIndex(t) ==
    /\ pc[t] = "e_commit2"
    /\ lock_owner = t
    /\ index_by_symbol' = MakeIndex(cache_data)
    /\ last_update_ts' = last_update_ts + 1
    /\ lock_owner' = NoOwner
    /\ rcall' = ForeignWrite(t)
    /\ last_commit' = NoCommit
    /\ Return(t, loc[t].ret_cb, [loc[t] EXCEPT !.ret_cb = <<>>])
    /\ UNCHANGED <<cache_data, envVars, schedVars>>

\* ------------------------------------- add_symbols_to_cache (lines 556-753)
\* data.items() of a quotes/latest answer: some of the requested symbols, each
\* once, in the answer's order
QuoteAnswers(requested) ==
    {q \in UNION {[1..n -> (requested \cap Symbols) \X Prices] :
                     n \in 0..Cardinality(requested \cap Symbols)} :
        \A i, j \in DOMAIN q : i # j => q[i][1] # q[j][1]}

\* lines 665-682: new_items from the answer
QuoteItems(q, prev_prices) ==
    [i \in DOMAIN q |->
        LET prev == PrevOrSentinel(prev_prices, q[i][1])
        IN CryptoBrief(q[i][1], q[i][2], get_simvol(prev, q[i][2]), prev)]

\* lines 735-747 building the new tuple from the new items alone
MergeItemsWholesale(list, index, items, replace) == items

\* lines 735-747: current_list after the loop over new_items
RECURSIVE MergeItems(_, _, _, _)
MergeItems(list, index, items, replace) ==
    IF items = <<>> THEN list
    ELSE LET cb == Head(items)
         IN IF cb.symbol \in DOMAIN index
            THEN MergeItems(IF replace THEN [list EXCEPT ![index[cb.symbol]] = cb] ELSE list,
                            index, Tail(items), replace)
            ELSE MergeItems(Append(list, cb),
                            [s \in DOMAIN index \cup {cb.symbol} |->
                                IF s = cb.symbol THEN Len(list) + 1 ELSE index[s]],
                            Tail(items), replace)

\* lines 581-594: no tokens -> get_all_cached; empty cache -> bootstrap
AddCheck(t) ==
    /\ pc[t] = "a_check"
    /\ IF loc[t].tokens = {}
       THEN Goto(t, "c_check", loc[t]) /\ UNCHANGED rcall
       ELSE IF cache_data = <<>>
            THEN /\ Call(t, "r_req", <<"a_snap">>, loc[t])
                 /\ rcall' = [rcall EXCEPT ![t] = Running("bootstrap")]
            ELSE Goto(t, "a_snap", loc[t]) /\ UNCHANGED rcall
    /\ UNCHANGED <<cacheVars, envVars, schedVars, last_commit>>

\* lines 600-618: the indexes under the lock, then tokens_to_query
AddSnapshot(t) ==
    /\ pc[t] = "a_snap"
    /\ lock_owner = NoOwner
    /\ LET ttq == {tok \in loc[t].tokens :
                      /\ Upper(tok) \notin DOMAIN index_by_symbol
                      /\ Lower(tok) \notin NamesOf(cache_data)}
       IN Goto(t, IF ttq = {} THEN "c_check" ELSE "a_req",
               [loc[t] EXCEPT !.tokens_to_query = ttq,
                              !.cached_at_call = loc[t].tokens \ ttq,
                              !.prev_prices = PrevPrices(cache_data),
                              !.new_items = <<>>,
                              !.quoted = {},
                              !.unresolved = {},
                              !.price_bound = FALSE])
    /\ UNCHANGED <<cacheVars, envVars, schedVars, rcall, last_commit>>

\* Where add_symbols_to_cache goes once no token is left for find_coin
\* (lines 729-734)
AfterFallback(l) ==
    IF l.unresolved # {} THEN "a_fallback"
    ELSE IF l.new_items = <<>> THEN "c_check" ELSE "a_commit"

\* lines 661-694: new_items from the answer, then the tokens left for find_coin
AddAnswer(t, q) ==
    LET got == {q[i][1] : i \in DOMAIN q}
        l == [loc[t] EXCEPT !.new_items = QuoteItems(q, loc[t].prev_prices),
                            !.quoted = got,
                            !.unresolved = {tok \in loc[t].tokens_to_query :
                                               Upper(tok) \notin got},
                            !.price_bound = (q # <<>>)]
    IN Goto(t, AfterFallback(l), l)

\* lines 644-657: the batch GET to quotes/latest
AddRequest(t) ==
    /\ pc[t] = "a_req"
    /\ \/ \* status 429: sleep, then once more
          Goto(t, "a_retry", loc[t])
       \/ \* transport error, raise_for_status, or error_code != 0
          Raise(t, "RequestError", loc[t])
       \/ \E q \in QuoteAnswers({Upper(tok) : tok \in loc[t].tokens_to_query}) : AddAnswer(t, q)
    /\ UNCHANGED <<cacheVars, envVars, schedVars, rcall, last_commit>>

\* lines 645-657: the GET repeated once after a 429
AddRetry(t) ==
    /\ pc[t] = "a_retry"
    /\ \/ Raise(t, "RequestError", loc[t])
       \/ \E q \in QuoteAnswers({Upper(tok) : tok \in loc[t].tokens_to_query}) : AddAnswer(t, q)
    /\ UNCHANGED <<cacheVars, envVars, schedVars, rcall, last_commit>>

\* lines 696-698: cb = self.find_coin(tok) for the next unresolved token
AddFallback(t) ==
    /\ pc[t] = "a_fallback"
    /\ \E tok \in loc[t].unresolved :
         Call(t, "f_check", <<"a_fb_ret">>,
              [loc[t] EXCEPT !.lookup = tok, !.unresolved = @ \ {tok}])
    /\ UNCHANGED <<cacheVars, envVars, schedVars, rcall, last_commit>>

\* lines 699-731: cb None -> next token; otherwise line 715 reads the local
\* `price` (unbound unless the batch loop assigned it) and line 718 builds a
\* CryptoBrief without previous_price
AddFallbackReturn(t) ==
    /\ pc[t] = "a_fb_ret"
    /\ IF retval[t] = <<>>
       THEN Goto(t, AfterFallback(loc[t]), loc[t])
       ELSE IF loc[t].price_bound
            THEN Raise(t, "TypeError", loc[t])
            ELSE Raise(t, "UnboundLocalError", loc[t])
    /\ UNCHANGED <<cacheVars, envVars, schedVars, rcall, last_commit>>

\* lines 734-749: take the lock, merge, self._cache_data = new_tuple
AddCommitData(t) ==
    /\ pc[t] = "a_commit"
    /\ lock_owner = NoOwner
    /\ lock_owner' = t
    /\ cache_data' = MergeItems(cache_data, index_by_symbol, loc[t].new_items, loc[t].replace)
    /\ last_commit' = [kind |-> "upsert", by |-> t, old_data |-> cache_data,
                       items |-> SymbolsOf(loc[t].new_items), fetched |-> <<>>,
                       clean |-> FALSE]
    /\ rcall' = [ForeignWrite(t) EXCEPT ![t] = NoCall]
    /\ prewarmed' = IF loc[t].op = "on_get_price" THEN loc[t].new_items ELSE prewarmed
    /\ Goto(t, "a_commit2", [loc[t] EXCEPT !.prev_prices = <<>>, !.tokens_to_query = {},
                                           !.price_bound = FALSE])
    /\ UNCHANGED <<index_by_symbol, last_update_ts, ops, cycles, pending_pass, fired,
                   schedVars>>

\* lines 750-753: self._index_by_symbol = new_index, the timestamp, return
AddCommitIndex(t) ==
    /\ pc[t] = "a_commit2"
    /\ lock_owner = t
    /\ index_by_symbol' = MakeIndex(cache_data)
    /\ last_update_ts' = last_update_ts + 1
    /\ lock_owner' = NoOwner
    /\ rcall' = ForeignWrite(t)
    /\ last_commit' = NoCommit
    /\ Return(t, <<>>, [loc[t] EXCEPT !.new_items = <<>>])
    /\ UNCHANGED <<cache_data, envVars, schedVars>>

\* --------------------------------------------- main.py: the bot's handlers
TokenSets == {S \in SUBSET Tokens : Cardinality(S) <= MaxTokens}

BeginOp(t, first, rets, l) ==
    /\ pc[t] = "idle"
    /\ Call(t, first, rets, l)
    /\ UNCHANGED <<cacheVars, last_commit>>

\* main.py line 526: coin = _coinApi.get_by_symbol(coin_symbol)
BotGetBySymbol ==
    /\ ops < MaxOps
    /\ \E sym \in Symbols :
         BeginOp("bot", "g_check", <<>>,
                 [EmptyLoc EXCEPT !.op = "get_by_symbol", !.symbol = sym])
    /\ rcall' = [rcall EXCEPT !["bot"] = NoCall]
    /\ ops' = ops + 1
    /\ UNCHANGED <<cycles, pending_pass, fired, prewarmed, schedVars>>

\* main.py line 474: coin = _coinApi.find_coin(text)
BotFindCoin ==
    /\ ops < MaxOps
    /\ \E tok \in Tokens :
         BeginOp("bot", "f_check", <<>>,
                 [EmptyLoc EXCEPT !.op = "find_coin", !.lookup = tok])
    /\ rcall' = [rcall EXCEPT !["bot"] = NoCall]
    /\ ops' = ops + 1
    /\ UNCHANGED <<cycles, pending_pass, fired, prewarmed, schedVars>>

\* Arguments of get_top: main.py line 323 calls get_top(10), the method also
\* takes another unit of account
TopLimits == 1..MaxListing
Converts == {default_convert, "EUR"}

\* main.py line 323: coins = _coinApi.get_top(10)
BotGetTop ==
    /\ ops < MaxOps
    /\ \E limit \in TopLimits, convert \in Converts :
         BeginOp("bot", "t_check", <<>>,
                 [EmptyLoc EXCEPT !.op = "get_top", !.limit = limit, !.convert = convert])
    /\ rcall' = [rcall EXCEPT !["bot"] = NoCall]
    /\ ops' = ops + 1
    /\ UNCHANGED <<cycles, pending_pass, fired, prewarmed, schedVars>>

\* add_symbols_to_cache as a public method: any tokens, either replace_existing
BotAddSymbols ==
    /\ ops < MaxOps
    /\ \E toks \in TokenSets, rep \in BOOLEAN :
         BeginOp("bot", "a_check", <<>>,
                 [EmptyLoc EXCEPT !.op = "add_symbols_to_cache",
                                  !.tokens = toks, !.replace = rep])
    /\ rcall' = [rcall EXCEPT !["bot"] = NoCall]
    /\ ops' = ops + 1
    /\ UNCHANGED <<cycles, pending_pass, fired, prewarmed, schedVars>>

\* ---------------------------------------- main.py: on_get_price (123-140)
\* line 130: _coinApi.force_refresh()
PollStart ==
    /\ cycles < MaxCycles
    /\ BeginOp("poller", "r_req", <<"p_favs">>, [EmptyLoc EXCEPT !.op = "on_get_price"])
    /\ rcall' = [rcall EXCEPT !["poller"] = Running("force_refresh")]
    /\ cycles' = cycles + 1
    /\ UNCHANGED <<ops, pending_pass, fired, prewarmed, schedVars>>

\* lines 132-134: the favourites pre-warm, replace_existing=False
PollFavourites ==
    /\ pc["poller"] = "p_favs"
    /\ \/ \* favorit_coins is None
          Goto("poller", "p_spawn", loc["poller"])
       \/ \E toks \in TokenSets :
            Call("poller", "a_check", <<"p_spawn">>,
                 [loc["poller"] EXCEPT !.tokens = toks, !.replace = FALSE])
    /\ UNCHANGED <<cacheVars, envVars, schedVars, rcall, last_commit>>

\* lines 136-140: thread_notify.start()
PollSpawn ==
    /\ pc["poller"] = "p_spawn"
    /\ pending_pass' = pending_pass + 1
    /\ Return("poller", <<>>, [EmptyLoc EXCEPT !.op = "on_get_price"])
    /\ UNCHANGED <<cacheVars, ops, cycles, fired, prewarmed, rcall, last_commit, schedVars>>

\* ------------------------------ main.py: on_check_notifications (91-117)
\* AlertCrypto rows: symbol, price (the threshold) and trigger identify a rule
Rules == [symbol : Symbols, price : Prices, trigger : {">", "<"}]
RuleSets == {S \in SUBSET Rules : Cardinality(S) <= MaxRules}

\* line 105: if price_old == -1 or price_old == None: continue
NoBaseline(coin) ==
    coin.previous_price = Sentinel \/ coin.previous_price = NoneValue

\* lines 105-117 without the baseline check and with is_between given its
\* three arguments
NotifyOutcomeLevelOnly(coin, notify) ==
    IF coin.symbol # notify.symbol THEN "other"
    ELSE IF is_between(notify.price, coin.price, notify.trigger) THEN "fire"
    ELSE "hold"

\* lines 105-117 for one coin and one rule: line 110 calls
\* is_between(notify.price, price_now, price_old, notify.trigger), four
\* arguments to a function of three (tools.py line 167): TypeError
NotifyOutcome(coin, notify) ==
    IF NoBaseline(coin) THEN "skip"
    ELSE IF coin.symbol # notify.symbol THEN "other"
    ELSE "TypeError"

PassRaises(coins, rules) ==
    \E i \in DOMAIN coins, r \in rules : NotifyOutcome(coins[i], r) = "TypeError"

PassFires(coins, rules) ==
    {r \in rules : \E i \in DOMAIN coins : NotifyOutcome(coins[i], r) = "fire"}

\* lines 92-99: the rules, their symbols, coins = get_by_symbols(list_coin)
NotifyStart ==
    /\ pending_pass > 0
    /\ \E rules \in RuleSets :
         BeginOp("notify", "s_check", <<"n_eval">>,
                 [EmptyLoc EXCEPT !.op = "on_check_notifications", !.rules = rules,
                                  !.todo = {r.symbol : r \in rules}])
    /\ rcall' = [rcall EXCEPT !["notify"] = NoCall]
    /\ pending_pass' = pending_pass - 1
    /\ fired' = {}
    /\ UNCHANGED <<ops, cycles, prewarmed, schedVars>>

\* lines 101-117: the loop over coins and rules
NotifyEval ==
    /\ pc["notify"] = "n_eval"
    /\ fired' = fired \cup PassFires(retval["notify"], loc["notify"].rules)
    /\ IF PassRaises(retval["notify"], loc["notify"].rules)
       THEN Raise("notify", "TypeError", loc["notify"])
       ELSE Return("notify", <<>>, loc["notify"])
    /\ UNCHANGED <<cacheVars, ops, cycles, pending_pass, prewarmed, rcall, last_commit, schedVars>>

\* ------------------------------- schedulertimer.py: generate_schedule
\* WINDOWS_UTC (lines 34-40), as <<start_h, end_h>>
WINDOWS_UTC == <<<<7, 12>>, <<12, 16>>, <<16, 20>>, <<20, 24>>, <<0, 7>>>>

\* Weights are binary fractions, held as numerators over WeightDenominator:
\* the float products and floors of lines 86-90 are exact on them.
WeightDenominator == 16

\* DEFAULT_WEIGHTS (line 42): [0.1875, 0.5, 0.1875, 0.0625, 0.0625]
DEFAULT_WEIGHTS == <<3, 8, 3, 1, 1>>

DaySeconds == 24 * 3600

minutes_in_window(start_h, end_h) ==
    LET end == IF end_h > start_h THEN end_h ELSE end_h + 24
    IN (end - start_h) * 60

\* Python's a // b and math.floor(a / b) for integers, b # 0
FloorDiv(a, b) ==
    LET PosDiv(x, y) == IF x >= 0 THEN x \div y ELSE -((-x + y - 1) \div y)
    IN IF b > 0 THEN PosDiv(a, b) ELSE PosDiv(-a, -b)

RECURSIVE SumSeq(_)
SumSeq(q) == IF q = <<>> THEN 0 ELSE Head(q) + SumSeq(Tail(q))

\* strftime('%H:%M:%S') of a second of the day
HMS(sec) == <<sec \div 3600, (sec \div 60) % 60, sec % 60>>

\* map(int, tstr.split(':')) and time(hh, mm, ss), as a second of the day
SecondOfDay(hms) == hms[1] * 3600 + hms[2] * 60 + hms[3]

\* lines 73-83 with use_all_budget adding the residual's days to the daily count
DailyRequestsSpendingResidual(limit_per_month, days_in_month, use_all_budget) ==
    LET base_daily == FloorDiv(limit_per_month, days_in_month)
    IN IF use_all_budget /\ limit_per_month - base_daily * days_in_month > 0
       THEN base_daily + 1
       ELSE base_daily

\* lines 73-83: base_daily; use_all_budget only reaches a `pass`
DailyRequests(limit_per_month, days_in_month, use_all_budget) ==
    FloorDiv(limit_per_month, days_in_month)

\* line 91 sorting ascending: the number of windows that get a leftover unit
\* before window i when the smallest remainders go first
AheadOfSmallestFirst(fracs, i) ==
    Cardinality({j \in DOMAIN fracs :
                    \/ fracs[j] < fracs[i]
                    \/ fracs[j] = fracs[i] /\ j < i})

\* lines 90-92: fracs.sort(reverse=True) on (remainder, index) pairs; the
\* number of pairs placed before window i's
Ahead(fracs, i) ==
    Cardinality({j \in DOMAIN fracs :
                    \/ fracs[j] > fracs[i]
                    \/ fracs[j] = fracs[i] /\ j > i})

\* lines 86-87 alone: the floors, the deficit never handed out
ApportionFloorsOnly(weights, daily_requests) ==
    [i \in DOMAIN weights |-> FloorDiv(weights[i] * daily_requests, WeightDenominator)]

\* lines 86-93: counts per window
Apportion(weights, daily_requests) ==
    LET raw == [i \in DOMAIN weights |-> weights[i] * daily_requests]
        counts == [i \in DOMAIN weights |-> FloorDiv(raw[i], WeightDenominator)]
        deficit == daily_requests - SumSeq(counts)
        fracs == [i \in DOMAIN weights |-> raw[i] - counts[i] * WeightDenominator]
    IN [i \in DOMAIN weights |->
           IF deficit > 0 /\ Ahead(fracs, i) < deficit THEN counts[i] + 1 ELSE counts[i]]

\* lines 113-121 with range(n + 1)
WindowTimesOneMore(widx, n, utc_offset) ==
    LET mins == minutes_in_window(WINDOWS_UTC[widx][1], WINDOWS_UTC[widx][2])
    IN [k \in 1..(IF n <= 0 THEN 0 ELSE n + 1) |->
           LET t_utc == WINDOWS_UTC[widx][1] * 3600 + ((2 * k - 1) * mins * 30) \div n
           IN [instant |-> t_utc,
               local |-> HMS((t_utc + utc_offset * 3600 + DaySeconds) % DaySeconds),
               widx |-> widx]]

\* lines 102-121: the slots of one window.  interval_seconds = mins*60/n and
\* the k-th slot (k from 0) is first_offset + k*interval_seconds after the
\* window's start: (2k+1)*mins*30/n seconds, which strftime truncates to the
\* second.  `instant` is the aware datetime's position in time.
WindowTimes(widx, n, utc_offset) ==
    LET mins == minutes_in_window(WINDOWS_UTC[widx][1], WINDOWS_UTC[widx][2])
    IN [k \in 1..(IF n <= 0 THEN 0 ELSE n) |->
           LET t_utc == WINDOWS_UTC[widx][1] * 3600 + ((2 * k - 1) * mins * 30) \div n
           IN [instant |-> t_utc,
               local |-> HMS((t_utc + utc_offset * 3600 + DaySeconds) % DaySeconds),
               widx |-> widx]]

RECURSIVE AllWindowTimes(_, _, _)
AllWindowTimes(widx, counts, utc_offset) ==
    IF widx > Len(WINDOWS_UTC) THEN <<>>
    ELSE WindowTimes(widx, counts[widx], utc_offset)
             \o AllWindowTimes(widx + 1, counts, utc_offset)

\* lines 69-142.  Window indexes are 1-based here and 0-based in the source.
generate_schedule(limit_per_month, days_in_month, weights, utc_offset, use_all_budget) ==
    IF days_in_month = 0
    THEN [NoSchedule EXCEPT !.status = "ZeroDivisionError"]
    ELSE LET base_daily == FloorDiv(limit_per_month, days_in_month)
             monthly_used == base_daily * days_in_month
             daily_requests == DailyRequests(limit_per_month, days_in_month, use_all_budget)
             counts == Apportion(weights, daily_requests)
             daily_times == AllWindowTimes(1, counts, utc_offset)
             \* line 131: aware datetimes compare by their position in time
             daily_times_sorted == SortSeq(daily_times, LAMBDA x, y : x.instant < y.instant)
         IN [status |-> "ok",
             daily_requests |-> daily_requests,
             monthly_used |-> monthly_used,
             residual_monthly |-> limit_per_month - monthly_used,
             requests |-> [i \in DOMAIN counts |-> IF counts[i] <= 0 THEN 0 ELSE counts[i]],
             daily_times_flat |-> [i \in DOMAIN daily_times_sorted |-> daily_times_sorted[i].local],
             daily_times_window_index |->
                 [i \in DOMAIN daily_times_sorted |-> daily_times_sorted[i].widx]]

\* main.py line 588: sched = generate_schedule(limit_per_month=LIMIT, ...)
GenerateSchedule ==
    /\ sched.status = "none"
    /\ sched_in.tz_out # "none"
    /\ sched' = generate_schedule(sched_in.limit_per_month, sched_in.days_in_month,
                                  sched_in.weights, sched_in.utc_offset,
                                  sched_in.use_all_budget)
    /\ UNCHANGED <<cacheVars, pc, stack, loc, retval, result, envVars, rcall, last_commit,
                   sched_in, tm_times, tm_pc, tm_now, tz_back, tm_started, tm_next, tm_stop,
                   tm_fired, requests, tmHist>>

\* ------------------------------------ schedulertimer.py: TimerScheduler
\* sorted(daily_times) on 'HH:MM:SS' strings: the order of <<hh, mm, ss>>
SortedTimes(times) ==
    SortSeq(times, LAMBDA x, y : SecondOfDay(x) < SecondOfDay(y))

\* __init__ (lines 154-169): daily_times sorted, daily_window_indices as given
\* (a list of None for an empty or missing one)
TimerScheduler(daily_times, daily_window_indices) ==
    [daily_times |-> SortedTimes(daily_times),
     daily_window_indices |->
         IF daily_window_indices = <<>>
         THEN [i \in DOMAIN daily_times |-> 0]
         ELSE daily_window_indices]

\* main.py lines 589-595: the TimerScheduler built on the generated schedule
TimerConstruct ==
    /\ sched.status = "ok"
    /\ tm_pc = "none"
    /\ tm_times = NoTimes
    /\ tm_times' = TimerScheduler(sched.daily_times_flat, sched.daily_times_window_index)
    /\ tm_pc' = "built"
    /\ UNCHANGED <<cbVars, sched_in, sched, tm_now, tz_back, tm_started, tm_next, tm_stop, tm_fired,
                   requests, tmHist>>

\* datetime.now(tz) (lines 188, 211) as the code's arithmetic takes it.  The
\* datetimes of _run_loop and _next_scheduled_datetime all carry the one
\* ZoneInfo object of tz_out, and Python compares and subtracts aware
\* datetimes with the same tzinfo by their wall-clock fields, ignoring the
\* offset: so a datetime counts as its wall-clock seconds since the midnight
\* of day 0, which after the clock was set back are an hour behind tm_now.
WallClock(now) ==
    IF tz_back # NoneValue /\ now >= tz_back THEN now - 3600 ELSE now

\* _next_scheduled_datetime (lines 171-183): <<next_dt, idx>>, the first of
\* the earliest candidates
NextScheduledDatetime(daily_times, now_dt) ==
    LET today == now_dt \div DaySeconds
        Candidate(idx) ==
            LET dt == today * DaySeconds + SecondOfDay(daily_times[idx])
            IN IF dt <= now_dt THEN dt + DaySeconds ELSE dt
        idx == CHOOSE i \in DOMAIN daily_times :
                   \A j \in DOMAIN daily_times :
                       Candidate(i) < Candidate(j) \/ (Candidate(i) = Candidate(j) /\ i <= j)
    IN <<Candidate(idx), idx>>

\* Where _run_loop is while its thread is alive, and once it has ended
LoopPhases == {"loop", "sleep", "fire", "callback"}
Terminated == {"exited", "crashed"}

\* Queue() (line 163): maxsize 0, which Queue takes as "no limit"
signal_queue_maxsize == 0

\* put_nowait (line 234) with the Full it raises swallowed (lines 235-237)
PutNowait(queue, maxsize, signal) ==
    IF maxsize > 0 /\ Len(queue) >= maxsize THEN queue ELSE Append(queue, signal)

\* Durations of lines 195-205 and 251, in tenths of a second
ShortWait == 20
StopCheckStep == 10
LoopPause == 1

\* lines 195-205: the longest single time.sleep of a wait: min(1.0, rest)
\* in the stop-checking loop for a wait above 2.0 s, the whole wait otherwise
SleepGap(wait_tenths) ==
    IF wait_tenths > ShortWait THEN StopCheckStep ELSE wait_tenths

\* start() (lines 253-258)
TimerStart ==
    /\ tm_pc = "built"
    /\ tm_stop' = FALSE
    /\ tm_pc' = "loop"
    /\ tm_started' = tm_now
    /\ tm_join' = NoJoin
    /\ UNCHANGED <<cbVars, sched_in, sched, tm_times, tm_now, tz_back, tm_next, tm_fired, requests,
                   tm_queue, tm_last_fired, tm_last_cb, tm_stops, tm_stop_rec, tm_gap, tm_restart>>

\* history: the loop's phase and its signals at the first stop() of a run
FirstStop ==
    IF tm_stop_rec.phase = "none" /\ tm_pc \in LoopPhases
    THEN [phase |-> tm_pc, signals |-> Len(tm_queue)]
    ELSE tm_stop_rec

\* stop() setting the flag again from set to clear
TimerStopToggles(wait) ==
    /\ tm_pc # "none"
    /\ tm_stops < MaxStops
    /\ tm_join.state # "waiting"
    /\ tm_stop' = ~tm_stop
    /\ tm_stops' = tm_stops + 1
    /\ tm_stop_rec' = FirstStop
    /\ tm_join' = IF ~wait THEN tm_join
                  ELSE IF tm_pc = "built"
                       THEN [state |-> "returned", signals |-> Len(tm_queue)]
                       ELSE [state |-> "waiting", signals |-> 0]
    /\ UNCHANGED <<cbVars, sched_in, sched, tm_times, tm_pc, tm_now, tz_back, tm_started, tm_next,
                   tm_fired, requests, tm_queue, tm_last_fired, tm_last_cb, tm_gap, tm_restart>>

\* stop(wait) (lines 260-263) from a thread other than the loop's: the event
\* set, then join() if wait and start() has made a thread
TimerStop(wait) ==
    /\ tm_pc # "none"
    /\ tm_stops < MaxStops
    /\ tm_join.state # "waiting"
    /\ tm_stop' = TRUE
    /\ tm_stops' = tm_stops + 1
    /\ tm_stop_rec' = FirstStop
    /\ tm_join' = IF ~wait THEN tm_join
                  ELSE IF tm_pc = "built"
                       THEN [state |-> "returned", signals |-> Len(tm_queue)]
                       ELSE [state |-> "waiting", signals |-> 0]
    /\ UNCHANGED <<cbVars, sched_in, sched, tm_times, tm_pc, tm_now, tz_back, tm_started, tm_next,
                   tm_fired, requests, tm_queue, tm_last_fired, tm_last_cb, tm_gap, tm_restart>>

\* line 263 with a join() that returns without waiting for the thread's end
TimerJoinNoWait ==
    /\ tm_join.state = "waiting"
    /\ tm_join' = [state |-> "returned", signals |-> Len(tm_queue)]
    /\ UNCHANGED <<cbVars, sched_in, sched, tm_times, tm_pc, tm_now, tz_back, tm_started, tm_next,
                   tm_stop, tm_fired, requests, tm_queue, tm_last_fired, tm_last_cb, tm_stops,
                   tm_stop_rec, tm_gap, tm_restart>>

\* line 263: join(timeout) returning, the thread ended or the timeout passed
TimerJoin ==
    /\ tm_join.state = "waiting"
    /\ tm_join' = IF tm_pc \in Terminated
                  THEN [state |-> "returned", signals |-> Len(tm_queue)]
                  ELSE [state |-> "timed out", signals |-> 0]
    /\ UNCHANGED <<cbVars, sched_in, sched, tm_times, tm_pc, tm_now, tz_back, tm_started, tm_next,
                   tm_stop, tm_fired, requests, tm_queue, tm_last_fired, tm_last_cb, tm_stops,
                   tm_stop_rec, tm_gap, tm_restart>>

\* stop(wait) called by the callback, on the loop's thread: the event set;
\* with wait, join() of the current thread raises RuntimeError, which leaves
\* the callback and is caught on line 243
TimerStopInside(wait) ==
    /\ tm_pc = "callback"
    /\ tm_stops < MaxStops
    /\ tm_stop' = TRUE
    /\ tm_stops' = tm_stops + 1
    /\ tm_stop_rec' = FirstStop
    /\ IF wait
       THEN /\ tm_last_cb' = "raised"
            /\ tm_last_fired' = <<WallClock(tm_now)>>
            /\ tm_pc' = "loop"
            /\ tm_gap' = LoopPause
       ELSE UNCHANGED <<tm_last_cb, tm_last_fired, tm_pc, tm_gap>>
    /\ UNCHANGED <<cbVars, sched_in, sched, tm_times, tm_now, tz_back, tm_started, tm_next,
                   tm_fired, requests, tm_queue, tm_join, tm_restart>>

\* start() (lines 253-258) called after a stop(), on a TimerScheduler whose
\* start() has made a thread before: nothing done while that thread is alive
\* (line 254-255), otherwise the event cleared and a new thread on _run_loop
TimerRestart ==
    /\ tm_pc \in LoopPhases \cup Terminated
    /\ tm_stops > 0
    /\ tm_restart # <<tm_stops>>
    /\ tm_restart' = <<tm_stops>>
    /\ IF tm_pc \in LoopPhases
       THEN UNCHANGED <<tm_stop, tm_pc, tm_started>>
       ELSE /\ tm_stop' = FALSE
            /\ tm_pc' = "loop"
            /\ tm_started' = tm_now
    /\ UNCHANGED <<cbVars, sched_in, sched, tm_times, tm_now, tz_back, tm_next, tm_fired,
                   requests, tm_queue, tm_last_fired, tm_last_cb, tm_stops, tm_join,
                   tm_stop_rec, tm_gap>>

\* lines 187-190: the loop test, now, next_dt and idx.  min() of no candidates
\* raises ValueError, which ends the thread.
TimerLoop ==
    /\ tm_pc = "loop"
    /\ IF tm_stop THEN tm_pc' = "exited" /\ UNCHANGED tm_next
       ELSE IF tm_times.daily_times = <<>> THEN tm_pc' = "crashed" /\ UNCHANGED tm_next
       ELSE /\ tm_next' = NextScheduledDatetime(tm_times.daily_times, WallClock(tm_now))
            /\ tm_pc' = "sleep"
    /\ UNCHANGED <<cbVars, sched_in, sched, tm_times, tm_now, tz_back, tm_started, tm_stop, tm_fired,
                   requests, tmHist>>

\* lines 190-208: sleep for wait_seconds = next_dt - now, in steps of at most a second for a wait
\* above two seconds and in one sleep otherwise, leaving the loop when the
\* stop event is seen
TimerSleep ==
    /\ tm_pc = "sleep"
    /\ IF tm_stop
       THEN tm_pc' = "exited" /\ UNCHANGED <<tm_now, tm_gap>>
       ELSE /\ tm_next[1] < (MaxPollDays + 1) * DaySeconds
            /\ tm_now' = tm_now + (tm_next[1] - WallClock(tm_now))
            /\ tm_gap' = SleepGap((tm_next[1] - WallClock(tm_now)) * 10)
            /\ tm_pc' = "fire"
    /\ UNCHANGED <<cbVars, sched_in, sched, tm_times, tz_back, tm_started, tm_next, tm_stop, tm_fired,
                   requests, tm_queue, tm_last_fired, tm_last_cb, tm_stops, tm_join, tm_stop_rec, tm_restart>>

\* lines 211-230: the TimerSignal of a fire, as <<day, daily_index,
\* since_last_seconds, fired_time>>; since_last_seconds is <<>> for None
\* (lines 213-217)
Signal(next, fired_at, last_fired) ==
    <<next[1] \div DaySeconds, next[2],
      IF last_fired = <<>> THEN <<>> ELSE <<fired_at - last_fired[1]>>,
      fired_at>>

\* lines 211-237: the signal for next_dt put into signal_queue
TimerFire ==
    /\ tm_pc = "fire"
    /\ tm_fired' = tm_fired \cup {<<tm_next[1] \div DaySeconds, tm_next[2]>>}
    /\ tm_queue' = PutNowait(tm_queue, signal_queue_maxsize,
                             Signal(tm_next, WallClock(tm_now), tm_last_fired))
    /\ tm_pc' = "callback"
    /\ UNCHANGED <<cbVars, sched_in, sched, tm_times, tm_now, tz_back, tm_started, tm_next, tm_stop,
                   requests, tm_last_fired, tm_last_cb, tm_stops, tm_join, tm_stop_rec, tm_gap, tm_restart>>

\* How long callback(signal) keeps the loop thread
CallbackDurations == {0, LongCallback}

\* How callback(signal) ends: on_get_price returns, or raises (the
\* RuntimeError of a failed force_refresh, main.py line 130)
CallbackOutcomes == {"returned", "raised"}

\* The upstream requests of one on_get_price: the listing GET and its repeat
\* after a 429 (api_coinmarketcap.py lines 300-309), then for the favourites
\* none (none to query, or the refresh failed), the quotes GET, or the quotes
\* GET and its repeat (lines 644-657).  find_coin's requests for favourites
\* the quotes answer lacks come on top and are left out.
CycleRequests == {listing + quotes : listing \in 1..2, quotes \in 0..2}

\* lines 239-251 without the try/except: an exception of the callback leaves
\* _run_loop and ends the thread
TimerCallbackUncaught ==
    /\ tm_pc = "callback"
    /\ \E d \in CallbackDurations : tm_now' = tm_now + d
    /\ \E n \in CycleRequests : requests' = requests + n
    /\ \E outcome \in CallbackOutcomes :
         /\ tm_last_cb' = outcome
         /\ tm_pc' = IF outcome = "raised" THEN "crashed" ELSE "loop"
         /\ tm_last_fired' = IF outcome = "raised" THEN tm_last_fired ELSE <<WallClock(tm_now)>>
    /\ tm_gap' = LoopPause
    /\ UNCHANGED <<cbVars, sched_in, sched, tm_times, tz_back, tm_started, tm_next, tm_stop, tm_fired,
                   tm_queue, tm_stops, tm_join, tm_stop_rec, tm_restart>>

\* lines 239-251 with line 248 moved into the try block: a callback that
\* raises leaves _last_fired_time as it was
TimerCallbackSkipsLastFired ==
    /\ tm_pc = "callback"
    /\ \E d \in CallbackDurations : tm_now' = tm_now + d
    /\ \E n \in CycleRequests : requests' = requests + n
    /\ \E outcome \in CallbackOutcomes :
         /\ tm_last_cb' = outcome
         /\ tm_last_fired' = IF outcome = "raised" THEN tm_last_fired ELSE <<WallClock(tm_now)>>
    /\ tm_pc' = "loop"
    /\ tm_gap' = LoopPause
    /\ UNCHANGED <<cbVars, sched_in, sched, tm_times, tz_back, tm_started, tm_next, tm_stop, tm_fired,
                   tm_queue, tm_stops, tm_join, tm_stop_rec, tm_restart>>

\* lines 239-251: callback(signal) = on_get_price, run on the loop thread with
\* its exceptions caught, then _last_fired_time = fired (line 248, after the
\* try/except; fired is the clock read on line 211, and the clock has not
\* moved since) and the 0.1 s pause
TimerCallback ==
    /\ tm_pc = "callback"
    /\ \E d \in CallbackDurations : tm_now' = tm_now + d
    /\ \E n \in CycleRequests : requests' = requests + n
    /\ \E outcome \in CallbackOutcomes : tm_last_cb' = outcome
    /\ tm_last_fired' = <<WallClock(tm_now)>>
    /\ tm_pc' = "loop"
    /\ tm_gap' = LoopPause
    /\ UNCHANGED <<cbVars, sched_in, sched, tm_times, tz_back, tm_started, tm_next, tm_stop, tm_fired,
                   tm_queue, tm_stops, tm_join, tm_stop_rec, tm_restart>>

\* ------------------------------------------------------------ specification
RefreshStep(t) ==
    \/ RefreshRequest(t)
    \/ RefreshRetry(t)
    \/ RefreshBuild(t)
    \/ RefreshCommitData(t)
    \/ RefreshCommitIndex(t)

\* The steps of the cache's methods, by whichever thread is inside them
CacheStep(t) ==
    \/ RefreshStep(t)
    \/ GetCheck(t)
    \/ GetIndex(t)
    \/ GetData(t)
    \/ AllCachedCheck(t)
    \/ AllCachedRead(t)
    \/ FindCheck(t)
    \/ FindSymbolReturn(t)
    \/ FindByName(t)
    \/ FindNetwork(t)
    \/ EnsureCheck(t)
    \/ EnsureCommitData(t)
    \/ EnsureCommitIndex(t)
    \/ AddCheck(t)
    \/ AddSnapshot(t)
    \/ AddRequest(t)
    \/ AddRetry(t)
    \/ AddFallback(t)
    \/ AddFallbackReturn(t)
    \/ AddCommitData(t)
    \/ AddCommitIndex(t)

PollStep ==
    \/ PollStart
    \/ PollFavourites
    \/ PollSpawn

NotifyStep ==
    \/ NotifyStart
    \/ NotifyEval
    \/ ManyCheck("notify")
    \/ ManyIndex("notify")
    \/ ManyData("notify")

\* Spec: from construction, the poll cycle running concurrently with a bot
\* handler that reads one symbol.
Next ==
    \/ BotGetBySymbol
    \/ PollStep
    \/ \E t \in Threads : CacheStep(t)

Spec == Init /\ [][Next]_vars

\* Caches with the number of commits that made them: after a first refresh of
\* the empty cache (lines 318-356), after a second refresh, and after one
\* insertion by find_coin of a symbol the cache did not hold (lines 431-457).
ParsedListings == {l \in Listings : Parses(l)}

FirstCaches == {<<BuildList(l, <<>>), 1>> : l \in ParsedListings}

SecondCaches ==
    {<<BuildList(l, PrevPrices(c[1])), 2>> : l \in ParsedListings, c \in FirstCaches}

Inserted(caches) ==
    {<<Append(c[1], CryptoBrief(sym, p, STAR, NoneValue)), c[2] + 1>> :
        c \in caches, sym \in Symbols, p \in Prices}

WarmCaches ==
    LET refreshed == FirstCaches \cup SecondCaches
    IN refreshed \cup {c \in Inserted(refreshed) :
                         c[1][Len(c[1])].symbol \notin SymbolsOf(SubSeq(c[1], 1, Len(c[1]) - 1))}

\* The state between operations with the cache c and `passes` alert passes
\* started and not yet running, whatever the last pre-warm added
BetweenOperations(caches, passes) ==
    /\ \E c \in caches :
         /\ cache_data = c[1]
         /\ index_by_symbol = MakeIndex(c[1])
         /\ last_update_ts = c[2]
    /\ lock_owner = NoOwner
    /\ pc = [t \in Threads |-> "idle"]
    /\ stack = [t \in Threads |-> <<>>]
    /\ loc = [t \in Threads |-> EmptyLoc]
    /\ retval = [t \in Threads |-> <<>>]
    /\ result = [t \in Threads |-> [op |-> "none", status |-> "none", value |-> <<>>]]
    /\ ops = 0
    /\ cycles = 0
    /\ pending_pass = passes
    /\ fired = {}
    /\ rcall = [t \in Threads |-> NoCall]
    /\ last_commit = NoCommit
    /\ NoScheduler

InitWarm(caches, passes) ==
    /\ BetweenOperations(caches, passes)
    /\ prewarmed = <<>>

\* SpecApi: one client thread calling a public method on a cache that a first
\* refresh has filled (or left empty).
InitApi == InitWarm(FirstCaches, 0)

NextApi ==
    \/ BotGetBySymbol
    \/ BotFindCoin
    \/ BotAddSymbols
    \/ BotGetTop
    \/ CacheStep("bot")
    \/ TopCheck("bot")
    \/ TopLock("bot")
    \/ TopRequest("bot")

SpecApi == InitApi /\ [][NextApi]_vars

\* SpecCycle: a poll cycle (on_get_price) of the poller alone that follows a
\* completed one: the cache is what a refresh and then the favourites pre-warm
\* of a symbol missing from the listing have left (lines 351-356, 734-753).
PrewarmItems(c) ==
    {QuoteItems(<<<<sym, p>>>>, PrevPrices(c)) : sym \in Symbols \ SymbolsOf(c), p \in Prices}

InitCycle ==
    \E l \in ParsedListings :
        LET c == BuildList(l, <<>>)
        IN /\ c # <<>>
           /\ \E items \in PrewarmItems(c) :
                 /\ BetweenOperations({<<MergeItems(c, MakeIndex(c), items, FALSE), 2>>}, 0)
                 /\ prewarmed = items

NextCycle ==
    \/ PollStep
    \/ CacheStep("poller")

SpecCycle == InitCycle /\ [][NextCycle]_vars

\* SpecAlert: the alert pass that a completed poll cycle has started, on the
\* cache as the cycles and a resolver insertion have left it.
InitAlert == InitWarm(WarmCaches, 1)

NextAlert ==
    \/ NotifyStep
    \/ RefreshStep("notify")

SpecAlert == InitAlert /\ [][NextAlert]_vars

\* SpecSchedule: generate_schedule on every argument list of the bounded sets,
\* on main.py's own (lines 39-40, 588) and on one that puts more slots into
\* the window 12-16 than it has seconds.
TimeZones == {"UTC", "Europe/Berlin", "America/New_York"}

\* utcoffset() of the zone on the day of the call, in hours
ZoneOffsets(tz) ==
    IF tz = "UTC" THEN {0}
    ELSE IF tz = "Europe/Berlin" THEN {1, 2}
    ELSE {-5, -4}

WeightSteps == {0, WeightDenominator \div 4, WeightDenominator \div 2, WeightDenominator}

WeightLists ==
    {w \in [DOMAIN WINDOWS_UTC -> WeightSteps] \cup {DEFAULT_WEIGHTS} :
        SumSeq(w) \in {WeightDenominator - WeightDenominator \div 4,
                       WeightDenominator,
                       WeightDenominator + WeightDenominator \div 4}}

LIMIT == 10000

ProductionInput ==
    [limit_per_month |-> LIMIT, days_in_month |-> 31, weights |-> DEFAULT_WEIGHTS,
     tz_out |-> "UTC", utc_offset |-> 0, use_all_budget |-> FALSE]

DenseInput ==
    [limit_per_month |-> minutes_in_window(12, 16) * 60 + 1, days_in_month |-> 1,
     weights |-> <<0, WeightDenominator, 0, 0, 0>>,
     tz_out |-> "UTC", utc_offset |-> 0, use_all_budget |-> FALSE]

ScheduleInputs ==
    {in \in [limit_per_month : -1..MaxBudget, days_in_month : -1..MaxDaysInMonth,
             weights : WeightLists, tz_out : TimeZones, utc_offset : -5..2,
             use_all_budget : BOOLEAN] :
        in.utc_offset \in ZoneOffsets(in.tz_out)}
        \cup {ProductionInput, DenseInput}

\* budget >= 0, days >= 1, weights (fractions) summing to 1.0
ValidInput(in) ==
    /\ in.limit_per_month >= 0
    /\ in.days_in_month >= 1
    /\ SumSeq(in.weights) = WeightDenominator

SchedulerUnbuilt ==
    /\ sched = NoSchedule
    /\ tm_times = NoTimes
    /\ tm_pc = "none"
    /\ tm_started = 0
    /\ tm_next = <<>>
    /\ tm_stop = FALSE
    /\ tm_fired = {}
    /\ requests = 0
    /\ NoLoopHistory

InitSchedule ==
    /\ ColdStart
    /\ sched_in \in ScheduleInputs
    /\ SchedulerUnbuilt
    /\ tm_now = 0
    /\ tz_back = NoneValue

NextSchedule == GenerateSchedule

SpecSchedule == InitSchedule /\ [][NextSchedule]_vars

\* SpecPoller: a TimerScheduler built on any short list of times, started at
\* midnight or between two slots, with its callback on_get_price.
SlotTimes == {<<0, 0, 0>>, <<12, 0, 0>>, <<12, 0, 5>>, <<23, 59, 59>>}

SlotLists == UNION {[1..n -> SlotTimes] : n \in 0..MaxSlots}

StartClocks == {0, SecondOfDay(<<12, 0, 3>>)}

InitPoller ==
    /\ ColdStart
    /\ sched_in = NoInput
    /\ sched = NoSchedule
    /\ \E l \in SlotLists : tm_times = TimerScheduler(l, <<>>)
    /\ tm_pc = "built"
    /\ tm_now \in StartClocks
    /\ tz_back = NoneValue
    /\ tm_started = 0
    /\ tm_next = <<>>
    /\ tm_stop = FALSE
    /\ tm_fired = {}
    /\ requests = 0
    /\ NoLoopHistory

NextPoller ==
    \/ TimerStart
    \/ \E wait \in BOOLEAN : TimerStop(wait)
    \/ \E wait \in BOOLEAN : TimerStopInside(wait)
    \/ TimerJoin
    \/ TimerLoop
    \/ TimerSleep
    \/ TimerFire
    \/ TimerCallback

SpecPoller == InitPoller /\ [][NextPoller]_vars

\* SpecPollerFair: SpecPoller with the loop's thread scheduled (it is the only
\* runnable thread of its own steps) and the callback returning or raising.
LoopFairness ==
    /\ WF_vars(TimerLoop)
    /\ WF_vars(TimerSleep)
    /\ WF_vars(TimerFire)
    /\ WF_vars(TimerCallback)

SpecPollerFair == InitPoller /\ [][NextPoller]_vars /\ LoopFairness

\* SpecRestart: SpecPoller's TimerScheduler with stop(wait=False) and then
\* start() called again, from the thread that called stop()
NextRestart ==
    \/ TimerStart
    \/ TimerStop(FALSE)
    \/ TimerRestart
    \/ TimerLoop
    \/ TimerSleep
    \/ TimerFire
    \/ TimerCallback

SpecRestart == InitPoller /\ [][NextRestart]_vars

\* SpecSetBack: a TimerScheduler with tz_out = 'Europe/Berlin' (main.py line 40
\* names the zone as a setting of TZ) started on the day its daylight saving
\* time ends: at 03:00 the wall clock goes back to 02:00.  Slots before, in
\* and after the repeated hour.
SetBackSlotTimes == {<<1, 30, 0>>, <<2, 30, 0>>, <<3, 15, 0>>, <<12, 0, 0>>}

SetBackSlotLists == UNION {[1..n -> SetBackSlotTimes] : n \in 1..MaxSlots}

SetBackStartClocks == {0, SecondOfDay(<<2, 15, 0>>)}

InitSetBack ==
    /\ ColdStart
    /\ sched_in = [NoInput EXCEPT !.tz_out = "Europe/Berlin", !.utc_offset = 2]
    /\ sched = NoSchedule
    /\ \E l \in SetBackSlotLists : tm_times = TimerScheduler(l, <<>>)
    /\ tm_pc = "built"
    /\ tm_now \in SetBackStartClocks
    /\ tz_back = SecondOfDay(<<3, 0, 0>>)
    /\ tm_started = 0
    /\ tm_next = <<>>
    /\ tm_stop = FALSE
    /\ tm_fired = {}
    /\ requests = 0
    /\ NoLoopHistory

NextSetBack ==
    \/ TimerStart
    \/ TimerLoop
    \/ TimerSleep
    \/ TimerFire
    \/ TimerCallback

SpecSetBack == InitSetBack /\ [][NextSetBack]_vars

\* SpecQuota: main.py lines 588-596 on a budget of a few slots a day: the
\* schedule generated, the TimerScheduler built on it and started.
QuotaInputs ==
    {in \in ScheduleInputs :
        /\ ValidInput(in)
        /\ in.weights = DEFAULT_WEIGHTS
        /\ in.tz_out = "UTC"
        /\ ~in.use_all_budget
        /\ in.days_in_month <= MaxPollDays
        /\ in.limit_per_month < (MaxSlots + 1) * in.days_in_month}

InitQuota ==
    /\ ColdStart
    /\ sched_in \in QuotaInputs
    /\ SchedulerUnbuilt
    /\ tm_now \in StartClocks
    /\ tz_back = NoneValue

NextQuota ==
    \/ GenerateSchedule
    \/ TimerConstruct
    \/ NextPoller

SpecQuota == InitQuota /\ [][NextQuota]_vars

\* SpecZones: main.py lines 588-596 for each output timezone (line 40 names
\* 'America/New_York' and 'Europe/Berlin' besides 'UTC'), on a budget of a few
\* slots a day that the weights give to one window, halve between two or
\* spread as by default.
ZoneWeights ==
    {w \in WeightLists :
        \/ w = DEFAULT_WEIGHTS
        \/ \A i \in DOMAIN w : w[i] \in {0, WeightDenominator \div 2, WeightDenominator}}

ZoneInputs ==
    {in \in ScheduleInputs :
        /\ ValidInput(in)
        /\ in.weights \in ZoneWeights
        /\ ~in.use_all_budget
        /\ in.days_in_month = 1
        /\ in.limit_per_month \in 1..MaxSlots}

InitZones ==
    /\ ColdStart
    /\ sched_in \in ZoneInputs
    /\ SchedulerUnbuilt
    /\ tm_now \in StartClocks
    /\ tz_back = NoneValue

NextZones ==
    \/ GenerateSchedule
    \/ TimerConstruct
    \/ TimerStart
    \/ TimerLoop
    \/ TimerSleep
    \/ TimerFire
    \/ TimerCallback

SpecZones == InitZones /\ [][NextZones]_vars

\* The window of WINDOWS_UTC (line 18) that holds, in UTC, the local time hms
\* of a zone utc_offset hours ahead of UTC
UtcWindowOf(hms, utc_offset) ==
    LET utc == (SecondOfDay(hms) - utc_offset * 3600 + DaySeconds) % DaySeconds
    IN CHOOSE w \in DOMAIN WINDOWS_UTC :
           WINDOWS_UTC[w][1] * 3600 <= utc /\ utc < WINDOWS_UTC[w][2] * 3600

\* ------------------------------------------------------------- properties
\* C1: the record get_by_symbol returns for symbol S is S's record, from the
\* snapshot before or after a concurrent commit: never another symbol's
\* record, never an out-of-range position.  Refuted under Spec: the reader
\* takes no lock between reading the index and reading the tuple.
C1_ReaderNeverMixesSnapshots ==
    \A t \in Threads :
        (pc[t] = "idle" /\ result[t].op = "get_by_symbol") =>
            /\ result[t].status # "IndexError"
            /\ \A i \in DOMAIN result[t].value :
                   result[t].value[i].symbol = loc[t].symbol

\* C2: when a refresh has failed, the record tuple, the symbol index and the
\* last-update timestamp are what they were when it was called (as long as no
\* other writer has changed them since), and a failure inside force_refresh
\* has ended the caller's poll cycle with the error.
C2_FailedRefreshLeavesCache ==
    \A t \in Threads :
        rcall[t].phase = "failed" =>
            /\ rcall[t].snap # <<>> => rcall[t].snap = Snapshot
            /\ rcall[t].via = "force_refresh" =>
                   /\ (pc[t] = "idle" /\ result[t].op = "on_get_price")
                   /\ result[t].status = "RuntimeError"

\* a force_refresh that failed on a cache another thread's bootstrap had filled
\* before the call
C2_Witness ==
    /\ rcall["poller"].phase = "failed"
    /\ rcall["poller"].via = "force_refresh"
    /\ rcall["poller"].snap # <<>>
    /\ rcall["poller"].snap[1] # <<>>
    /\ result["poller"].status = "RuntimeError"

\* C3: a rule the alert pass has fired never belongs to a record the pass read
\* with no previous observation (previous_price -1 or None).
C3_NoBaselineNeverFires ==
    (pc["notify"] = "idle" /\ result["notify"].op = "on_check_notifications") =>
        \A r \in fired, i \in DOMAIN loc["notify"].coins :
            loc["notify"].coins[i].symbol = r.symbol =>
                ~NoBaseline(loc["notify"].coins[i])

\* a pass that ended without firing a rule whose level the current price of a
\* record without baseline has passed
C3_Witness ==
    /\ (pc["notify"] = "idle" /\ result["notify"].op = "on_check_notifications")
    /\ result["notify"].status = "ok"
    /\ \E r \in loc["notify"].rules, i \in DOMAIN loc["notify"].coins :
           LET coin == loc["notify"].coins[i]
           IN /\ coin.symbol = r.symbol
              /\ coin.previous_price = NoneValue
              /\ (r.trigger = ">" /\ coin.price > r.price)
              /\ r \notin fired

\* C4: for every rule whose record has a real previous price, the pass fires
\* the rule iff ('>' and price > threshold) or ('<' and price < threshold).
\* Refuted under SpecAlert: the pass raises TypeError at its first such rule.
C4_FiresIffLevelPassed ==
    (pc["notify"] = "idle" /\ result["notify"].op = "on_check_notifications") =>
        \A r \in loc["notify"].rules, i \in DOMAIN loc["notify"].coins :
            LET coin == loc["notify"].coins[i]
            IN (coin.symbol = r.symbol /\ coin.previous_price \in Prices) =>
                   (r \in fired <=>
                        \/ (r.trigger = ">" /\ coin.price > r.price)
                        \/ (r.trigger = "<" /\ coin.price < r.price))

\* C5: between the two assignments of a refresh's commit with no other writer
\* since the call, every record of the new tuple has the fetched price, and as
\* previous_price a price its symbol had in the tuple being replaced, or -1
\* if the symbol was absent from it.
C5_RefreshKeepsBaseline ==
    (last_commit.kind = "refresh" /\ last_commit.clean) =>
        /\ Len(cache_data) = Len(last_commit.fetched)
        /\ \A i \in DOMAIN cache_data :
               LET rec == cache_data[i]
                   old == last_commit.old_data
               IN /\ rec.symbol = last_commit.fetched[i].symbol
                  /\ rec.price = last_commit.fetched[i].price
                  /\ IF \E j \in DOMAIN old : old[j].symbol = rec.symbol
                     THEN \E j \in DOMAIN old : /\ old[j].symbol = rec.symbol
                                                /\ old[j].price = rec.previous_price
                     ELSE rec.previous_price = Sentinel

\* a refresh replacing a cache that held one of the fetched symbols at another
\* price and lacked another
C5_Witness ==
    /\ last_commit.kind = "refresh"
    /\ last_commit.clean
    /\ \E i \in DOMAIN cache_data :
           /\ cache_data[i].previous_price \in Prices
           /\ cache_data[i].previous_price # cache_data[i].price
    /\ \E i \in DOMAIN cache_data :
           /\ cache_data[i].previous_price = Sentinel
           /\ last_commit.old_data # <<>>

\* C6: a cached record whose previous price is the sentinel -1 carries the
\* marker 'uninitialized'.  Refuted under Spec: _refresh_once passes -1 to
\* get_simvol, which compares it like a price.
C6_SentinelMarkedUninitialized ==
    \A i \in DOMAIN cache_data :
        cache_data[i].previous_price = Sentinel =>
            cache_data[i].price_change = STAR

\* C7: every record, cached or returned by get_by_symbol, that has a real
\* previous price carries 'up' iff price > previous_price, 'down' iff price <
\* previous_price, 'unchanged' iff they are equal.
C7_MarkerMatchesStoredPrices ==
    LET MarkerMatches(rec) ==
            rec.previous_price \in Prices =>
                /\ rec.price_change = UP <=> rec.price > rec.previous_price
                /\ rec.price_change = DOWN <=> rec.price < rec.previous_price
                /\ rec.price_change = SAME <=> rec.price = rec.previous_price
    IN /\ \A i \in DOMAIN cache_data : MarkerMatches(cache_data[i])
       /\ \A t \in Threads :
              (pc[t] = "idle" /\ result[t].op = "get_by_symbol") =>
                  \A i \in DOMAIN result[t].value : MarkerMatches(result[t].value[i])

\* get_by_symbol has returned a record marked 'down' from a cache holding an
\* 'up' or 'unchanged' one too
C7_Witness ==
    /\ \E t \in Threads :
           /\ (pc[t] = "idle" /\ result[t].op = "get_by_symbol")
           /\ \E i \in DOMAIN result[t].value :
                  /\ result[t].value[i].previous_price \in Prices
                  /\ result[t].value[i].price_change = DOWN
    /\ \E i \in DOMAIN cache_data :
           /\ cache_data[i].previous_price \in Prices
           /\ cache_data[i].price_change \in {UP, SAME}

\* C8: while the cache has never been refreshed, at most one thread has sent
\* a listing request.  Refuted under Spec: `if not self._cache_data` is tested
\* without the lock, so a reader and the poller each fetch.
C8_OneFetchBeforeFirstRefresh ==
    last_update_ts = 0 =>
        Cardinality({t \in Threads :
                        pc[t] \in {"r_retry", "r_snap", "r_commit", "r_commit2"}}) <= 1

\* C9: between the two assignments of the commit of an upsert (of
\* add_symbols_to_cache or of find_coin), every record of the tuple being
\* replaced whose symbol is not among the new items is at its position,
\* unchanged, and the tuple has not become shorter.
C9_UpsertPreservesOthers ==
    last_commit.kind \in {"upsert", "find_coin"} =>
        /\ Len(cache_data) >= Len(last_commit.old_data)
        /\ \A i \in DOMAIN last_commit.old_data :
               last_commit.old_data[i].symbol \notin last_commit.items =>
                   /\ i \in DOMAIN cache_data
                   /\ cache_data[i] = last_commit.old_data[i]

\* add_symbols_to_cache appending a new symbol's record to a cache holding
\* another symbol's
C9_Witness ==
    /\ last_commit.kind = "upsert"
    /\ Len(cache_data) > Len(last_commit.old_data)
    /\ \E i \in DOMAIN last_commit.old_data :
           last_commit.old_data[i].symbol \notin last_commit.items

\* C10: add_symbols_to_cache(replace_existing=True) that has returned has
\* fetched a quote for every symbol it was given that was cached at the call.
\* Refuted under SpecApi: lines 600-618 drop the cached symbols from the query.
C10_ReplaceExistingRefetches ==
    \A t \in Threads :
        ((pc[t] = "idle" /\ result[t].op = "add_symbols_to_cache") /\ result[t].status = "ok" /\ loc[t].replace) =>
            \A tok \in loc[t].cached_at_call \cap Symbols : tok \in loc[t].quoted

\* C11: during the first days_in_month days after the Poller's start, the
\* scheduled poll cycles have sent at most limit_per_month upstream requests.
\* Refuted under SpecQuota: the schedule holds one slot for each request of
\* the budget, and a cycle sends more than one request.
C11_RequestsWithinBudget ==
    (tm_pc \in {"loop", "sleep", "fire", "callback"}
        /\ tm_now < tm_started + sched_in.days_in_month * DaySeconds) =>
        requests <= sched_in.limit_per_month

\* C12: for budget >= 0, days >= 1 and weights summing to 1.0, daily_times_flat
\* has exactly floor(budget / days) entries and daily_times_window_index has as
\* many.
C12_SlotCountIsDailyQuota ==
    (sched.status = "ok" /\ ValidInput(sched_in)) =>
        /\ Len(sched.daily_times_flat) = sched_in.limit_per_month \div sched_in.days_in_month
        /\ Len(sched.daily_times_window_index) = Len(sched.daily_times_flat)

\* a schedule of several slots a day in more than one window, from a budget
\* that days does not divide
C12_Witness ==
    /\ sched.status = "ok"
    /\ ValidInput(sched_in)
    /\ sched_in.limit_per_month % sched_in.days_in_month # 0
    /\ Len(sched.daily_times_flat) >= 3
    /\ Cardinality({sched.daily_times_window_index[i] :
                       i \in DOMAIN sched.daily_times_window_index}) >= 2

\* C13: for every valid input and every output timezone, daily_times_flat is
\* ascending by local time of day.  Refuted under SpecSchedule: the sort key is
\* the aware datetime, which orders by UTC instant, so with a non-zero offset
\* the local times wrap past midnight inside the list.
C13_SortedByLocalTime ==
    (sched.status = "ok" /\ ValidInput(sched_in)) =>
        \A i \in 1..(Len(sched.daily_times_flat) - 1) :
            SecondOfDay(sched.daily_times_flat[i])
                <= SecondOfDay(sched.daily_times_flat[i + 1])

\* C14: for every valid input no two entries of daily_times_flat are the same
\* HH:MM:SS.  Refuted under SpecSchedule: with more slots in a window than it
\* has seconds, strftime gives two slots the same second.
C14_NoDuplicateTimestamps ==
    (sched.status = "ok" /\ ValidInput(sched_in)) =>
        Cardinality({sched.daily_times_flat[i] : i \in DOMAIN sched.daily_times_flat})
            = Len(sched.daily_times_flat)

\* C15: for weights summing to 1.0 and a daily count >= 0, every window's
\* count is floor(weight * daily count) or one more, and the counts sum to the
\* daily count.
C15_ApportionmentExact ==
    (sched.status = "ok" /\ ValidInput(sched_in)) =>
        /\ \A i \in DOMAIN sched.requests :
               LET base == (sched_in.weights[i] * sched.daily_requests) \div WeightDenominator
               IN sched.requests[i] \in {base, base + 1}
        /\ SumSeq(sched.requests) = sched.daily_requests

\* a window raised by one next to a window with a remainder left at its floor
C15_Witness ==
    /\ sched.status = "ok"
    /\ ValidInput(sched_in)
    /\ \E i, j \in DOMAIN sched.requests :
           LET Raw(k) == sched_in.weights[k] * sched.daily_requests
           IN /\ sched.requests[i] = Raw(i) \div WeightDenominator + 1
              /\ Raw(j) % WeightDenominator # 0
              /\ sched.requests[j] = Raw(j) \div WeightDenominator

\* C16: of two windows with the same fractional remainder, the one with the
\* higher index gets a leftover unit only if the one with the lower index got
\* one.  Refuted under SpecSchedule: the pairs (remainder, index) are sorted
\* descending, so the highest index of a tie comes first.
C16_TiesToLowestIndex ==
    (sched.status = "ok" /\ ValidInput(sched_in)) =>
        \A i, j \in DOMAIN sched.requests :
            LET Raw(k) == sched_in.weights[k] * sched.daily_requests
            IN (/\ i < j
                /\ Raw(i) % WeightDenominator = Raw(j) % WeightDenominator
                /\ sched.requests[j] = Raw(j) \div WeightDenominator + 1) =>
                   sched.requests[i] = Raw(i) \div WeightDenominator + 1

\* C17 as stated: budget 10000, days 31 and the default weights give a daily
\* count of 322 and the counts [60, 161, 60, 20, 20], which sum to 322.
C17_SpecExample ==
    (sched_in = ProductionInput /\ sched.status = "ok") =>
        /\ sched.daily_requests = 322
        /\ sched.requests = <<60, 161, 60, 20, 20>>
        /\ SumSeq(sched.requests) = 322

\* C17 amended: budget 10000, days 31 and the default weights give a daily
\* count of 322 and the floors [60, 161, 60, 20, 20] with the one leftover
\* unit on one of the two windows tied at remainder 0.375 (7-12 or 16-20),
\* which sums to 322.
C17_ExampleAllocation ==
    (sched_in = ProductionInput /\ sched.status = "ok") =>
        /\ sched.daily_requests = 322
        /\ sched.requests \in {<<61, 161, 60, 20, 20>>, <<60, 161, 61, 20, 20>>}
        /\ SumSeq(sched.requests) = 322

\* the schedule of main.py's own call, generated
C17_Witness ==
    /\ sched_in = ProductionInput
    /\ sched.status = "ok"
    /\ Len(sched.daily_times_flat) = 322

\* C18: generate_schedule returns no schedule for days <= 0, budget < 0 or
\* weights that do not sum to 1.0.  Refuted under SpecSchedule: only days = 0
\* raises (ZeroDivisionError); nothing checks the rest.
C18_InvalidInputRejected ==
    (sched.status # "none" /\ ~ValidInput(sched_in)) => sched.status # "ok"

C20_EverySlotFiresEveryDay ==
    (tm_pc \in {"loop", "sleep", "fire", "callback"} /\ ~tm_stop) =>
        \A idx \in DOMAIN tm_times.daily_times, day \in 0..MaxPollDays :
            LET due == day * DaySeconds + SecondOfDay(tm_times.daily_times[idx])
                once == \A other \in DOMAIN tm_times.daily_times :
                            tm_times.daily_times[other] = tm_times.daily_times[idx]
                                => other = idx
            IN (once /\ tm_started < due /\ due < tm_now) => <<day, idx>> \in tm_fired

\* C21: a callback that raised has not ended the loop: the fire is on record and
\* the loop is still in one of its phases, or has left on the stop event.
C21_CallbackExceptionCaught ==
    tm_last_cb = "raised" =>
        /\ tm_fired # {}
        /\ tm_pc # "crashed"
        /\ tm_pc = "exited" => tm_stop
        /\ ~tm_stop => tm_pc \in LoopPhases

\* a second slot firing after the callback of the first has raised
C21_Witness ==
    /\ tm_last_cb = "raised"
    /\ ~tm_stop
    /\ tm_pc = "callback"
    /\ Cardinality(tm_fired) >= 2

\* C22: after a stop() that came while the callback ran, the loop ends that
\* callback and exits with no further signal or callback; and after a
\* stop(wait=True) whose join() returned on the thread's end, the thread is
\* ended and the queue holds what it held then.
C22_StopDuringCallback ==
    /\ tm_stop_rec.phase = "callback" =>
           /\ Len(tm_queue) = tm_stop_rec.signals
           /\ tm_pc \in {"callback", "loop", "exited"}
    /\ tm_join.state = "returned" =>
           /\ tm_pc \in Terminated \cup {"built"}
           /\ Len(tm_queue) = tm_join.signals

\* stop(wait=True) called during a callback, returned after the loop's exit
C22_Witness ==
    /\ tm_stop_rec.phase = "callback"
    /\ tm_join.state = "returned"
    /\ tm_pc = "exited"
    /\ Len(tm_queue) >= 1

\* C23: a stop() called with the event already set leaves the event, the
\* schedule, the queue and the fires as they were (the loop's phase too,
\* unless it is the callback's own stop(wait=True), whose join() raises into
\* the callback); and a running loop whose stop event is set ends.
C23_StopIdempotentAndTerminates ==
    /\ [][(tm_stop /\ tm_stops' = tm_stops + 1) =>
             /\ tm_stop'
             /\ UNCHANGED <<tm_times, tm_next, tm_queue, tm_fired, tm_now, tz_back>>
             /\ tm_pc' = tm_pc \/ (tm_pc = "callback" /\ tm_pc' = "loop")]_vars
    /\ (tm_stop /\ tm_pc \in LoopPhases) ~> (tm_pc \in Terminated)

\* two calls of stop() on a running loop, which has ended
C23_Witness ==
    /\ tm_stops = 2
    /\ tm_stop_rec.phase \in LoopPhases
    /\ tm_pc = "exited"

\* C24: the loop never sleeps more than one second (10 tenths) between two
\* looks at the stop event.  Refuted under SpecPoller: a wait of two seconds
\* or less is one time.sleep(wait_seconds).
C24_StopCheckedEverySecond ==
    tm_gap <= 10

\* C25: signal_queue never holds more than a fixed number of signals.
\* Refuted under SpecPoller for every capacity up to MaxCapacity: Queue() has
\* no limit and nothing takes the signals out.
C25_QueueBounded ==
    Len(tm_queue) <= MaxCapacity

\* C26: a 429 to the listing request is retried exactly once.  The listing GET
\* is sent by the step taken from "r_req" (line 300) and by the step taken from
\* "r_retry" (line 307).  A call enters "r_req" only when it starts, enters
\* "r_retry" only from "r_req", and leaves "r_retry" with the payload or with
\* the call failed: at most two listing requests per call, and a second 429 is
\* a failure of the refresh.
C26_RetriedExactlyOnce ==
    [][\A t \in Threads :
         /\ (pc[t] = "r_req" /\ pc'[t] # "r_req")
              => (pc'[t] \in {"r_retry", "r_snap"} \/ rcall'[t].phase = "failed")
         /\ (pc[t] = "r_retry" /\ pc'[t] # "r_retry")
              => (pc'[t] = "r_snap" \/ rcall'[t].phase = "failed")
         /\ (pc'[t] = "r_retry" /\ pc[t] # "r_retry") => pc[t] = "r_req"
         /\ (pc'[t] = "r_req" /\ pc[t] # "r_req") => rcall[t].phase # "running"]_vars

\* a refresh that was answered 429 and is about to send its second request
C26_Witness ==
    \E t \in Threads : pc[t] = "r_retry" /\ rcall[t].phase = "running"

\* C27: an entry of the listing answer without a price in the requested unit is
\* skipped and the others are committed.  A refresh at "r_snap" holds an answer
\* that passed raise_for_status and the error_code test (lines 309-313), so
\* whatever its entries lack, its next step is the one towards the commit.
C27_EntryWithoutPriceSkipped ==
    [][\A t \in Threads :
         (pc[t] = "r_snap" /\ pc'[t] # "r_snap")
            => (pc'[t] = "r_commit" /\ rcall'[t].phase = "running")]_vars

\* C28: find_coin never lets an error of its fallback lookups out.  A step from
\* "f_net" (the lookups by symbol and then by slug, lines 481-545) that did not
\* resolve the token, whether the upstream missed or a request raised, leaves
\* the cache as it is and makes find_coin return None to its caller: the
\* operation ends with status "ok" and no value, or the calling frame resumes
\* with an empty return value.
C28_FallbackErrorsCaught ==
    [][\A t \in Threads :
         (pc[t] = "f_net" /\ pc'[t] \notin {"f_net", "e_check"})
            => /\ UNCHANGED cacheVars
               /\ IF stack[t] = <<>>
                  THEN /\ pc'[t] = "idle"
                       /\ result'[t] = [op |-> "find_coin", status |-> "ok", value |-> <<>>]
                  ELSE /\ pc'[t] = Head(stack[t])
                       /\ stack'[t] = Tail(stack[t])
                       /\ retval'[t] = <<>>]_vars

\* find_coin called by the bot on a populated cache has gone through the
\* fallback and returned None
C28_Witness ==
    /\ cache_data # <<>>
    /\ pc["bot"] = "idle"
    /\ result["bot"] = [op |-> "find_coin", status |-> "ok", value |-> <<>>]

\* C29: refresh commits are ordered and each one takes the commit before it as
\* its baseline, overlapping calls included.  When a refresh commits
\* (line 354) while another thread has just returned from force_refresh
\* (main.py line 130, before line 134), the cache it replaces is what that
\* other refresh committed, so every symbol of the replaced cache that is
\* fetched again carries the replaced price as its previous_price.
C29_OverlappingRefreshesOrdered ==
    ( /\ last_commit.kind = "refresh"
      /\ \E u \in Threads \ {last_commit.by} :
             pc[u] = "p_favs" /\ rcall[u].phase = "done" )
    => \A i \in DOMAIN cache_data :
           LET rec == cache_data[i]
               old == last_commit.old_data
           IN (\E j \in DOMAIN old : old[j].symbol = rec.symbol)
                 => \E j \in DOMAIN old : /\ old[j].symbol = rec.symbol
                                           /\ old[j].price = rec.previous_price

\* The labels at which a thread has an upstream request in flight: the listing
\* GETs of _refresh_once, the lookups of find_coin, the quotes requests of
\* add_symbols_to_cache and of get_top
UpstreamRequests == {"r_req", "r_retry", "f_net", "a_req", "a_retry", "t_req"}

\* C30: no thread holds the cache lock while one of its upstream requests is
\* in flight, in any operation of the cache.
C30_NoLockDuringRequest ==
    \A t \in Threads : pc[t] \in UpstreamRequests => lock_owner # t

\* C31: the record find_coin inserts for a symbol it resolved over the network
\* carries the marker 'uninitialized' and the sentinel as its previous price.
\* Read at the assignment of self._cache_data (line 454): the appended record is
\* the last of the tuple.
C31_InsertedRecordHasSentinel ==
    last_commit.kind = "find_coin" =>
        LET rec == cache_data[Len(cache_data)]
        IN /\ rec.symbol \in last_commit.items
           /\ rec.symbol \notin SymbolsOf(last_commit.old_data)
           /\ rec.price_change = STAR
           /\ rec.previous_price = Sentinel

\* C32: a symbol the pre-warm upsert added, and that the listing does not hold,
\* keeps its price history.  When the pre-warm of the next poll cycle commits
\* (line 748) a record for a symbol that the pre-warm of the preceding cycle
\* added (prewarmed) and that this cycle's refresh did not bring, the record's
\* previous price is the price the symbol had in the preceding cycle.
C32_PrewarmedSymbolKeepsBaseline ==
    [][( /\ last_commit.kind # "upsert"
         /\ last_commit'.kind = "upsert"
         /\ last_commit'.by = "poller"
         /\ loc["poller"].op = "on_get_price" )
       => \A i \in DOMAIN cache_data' : \A j \in DOMAIN prewarmed :
             ( /\ cache_data'[i].symbol = prewarmed[j].symbol
               /\ cache_data'[i].symbol \in last_commit'.items
               /\ cache_data'[i].symbol \notin SymbolsOf(last_commit'.old_data) )
             => cache_data'[i].previous_price = prewarmed[j].price]_vars

\* C33: outside the commit sections (which hold the lock from the assignment
\* of self._cache_data to that of self._index_by_symbol) the symbol index is a
\* bijection between the stored symbols and the positions of the tuple.
C33_IndexIsBijection ==
    lock_owner = NoOwner =>
        /\ \A s \in DOMAIN index_by_symbol :
               /\ index_by_symbol[s] \in DOMAIN cache_data
               /\ cache_data[index_by_symbol[s]].symbol = s
        /\ \A i \in DOMAIN cache_data : cache_data[i].symbol \in DOMAIN index_by_symbol
        /\ \A i, j \in DOMAIN cache_data :
               cache_data[i].symbol = cache_data[j].symbol => i = j

\* C34: the window index of every signal is the index of the window that
\* holds the fired slot's time in UTC, whatever the output timezone.  The
\* signal of slot idx carries self.daily_window_indices[idx] (line 220) and
\* fires at self.daily_times[idx] in tz_out.
C34_SignalCarriesOwnWindow ==
    \A i \in DOMAIN tm_queue :
        LET idx == tm_queue[i][2]
        IN tm_times.daily_window_indices[idx]
               = UtcWindowOf(tm_times.daily_times[idx], sched_in.utc_offset)

\* C35: each fire puts exactly one signal into the queue and is followed by
\* one callback on the loop thread: the queue grows only in the step from
\* "fire" to "callback" and then by one signal, the callback is entered only
\* from a fire, it is left only for the loop test, and next_dt is chosen only
\* at the loop test, never while the callback runs.  since_last_seconds is None
\* in the first signal and fired_time minus the previous signal's fired_time
\* in every later one, whatever the outcome of the callback in between, and
\* _last_fired_time is the fired_time of the last signal whose callback ended.
C35_SinceLastChain ==
    /\ \A i \in DOMAIN tm_queue :
          tm_queue[i][3] = IF i = 1 THEN <<>>
                           ELSE <<tm_queue[i][4] - tm_queue[i - 1][4]>>
    /\ tm_last_fired = IF tm_pc \in {"fire", "callback"}
                       THEN (IF Len(tm_queue) - (IF tm_pc = "callback" THEN 1 ELSE 0) = 0
                             THEN <<>>
                             ELSE <<tm_queue[Len(tm_queue)
                                             - (IF tm_pc = "callback" THEN 1 ELSE 0)][4]>>)
                       ELSE IF tm_queue = <<>> THEN <<>>
                       ELSE <<tm_queue[Len(tm_queue)][4]>>

C35_OneSignalOneCallback ==
    /\ []C35_SinceLastChain
    /\ [][/\ tm_queue' # tm_queue =>
                /\ tm_pc = "fire" /\ tm_pc' = "callback"
                /\ Len(tm_queue') = Len(tm_queue) + 1
                /\ SubSeq(tm_queue', 1, Len(tm_queue)) = tm_queue
          /\ (tm_pc = "fire" /\ tm_pc' # "fire") =>
                tm_pc' = "callback" /\ Len(tm_queue') = Len(tm_queue) + 1
          /\ (tm_pc' = "callback" /\ tm_pc # "callback") => tm_pc = "fire"
          /\ (tm_pc = "callback" /\ tm_pc' # "callback") => tm_pc' = "loop"
          /\ tm_next' # tm_next => tm_pc = "loop"]_vars

\* a second signal whose since_last_seconds was measured from a fire whose
\* callback raised
C35_Witness ==
    /\ tm_pc = "callback"
    /\ Len(tm_queue) = 2
    /\ tm_last_cb = "raised"
    /\ tm_queue[1][3] = <<>>
    /\ tm_queue[2][3] = <<tm_queue[2][4] - tm_queue[1][4]>>
    /\ tm_queue[2][4] > tm_queue[1][4]

\* C36: no signal is fired before its scheduled_time, no two signals of one
\* day are for the same slot time, and the signals of one day are at most as
\* many as the entries of daily_times (tm_queue holds every signal fired:
\* nothing takes signals out of it).
C36_NoEarlyNoRepeatedFire ==
    LET SlotTime(i) == SecondOfDay(tm_times.daily_times[tm_queue[i][2]])
        Scheduled(i) == tm_queue[i][1] * DaySeconds + SlotTime(i)
    IN /\ \A i \in DOMAIN tm_queue : tm_queue[i][4] >= Scheduled(i)
       /\ \A i, j \in DOMAIN tm_queue :
              (i < j /\ tm_queue[i][1] = tm_queue[j][1]) => SlotTime(i) # SlotTime(j)
       /\ \A d \in 0..MaxPollDays :
              Cardinality({i \in DOMAIN tm_queue : tm_queue[i][1] = d})
                  <= Len(tm_times.daily_times)

\* C37: once a start() that followed a stop() has returned, and until stop()
\* is called again, the Poller is Running: the stop event is clear and the
\* loop has not left for it ("crashed" is the loop ended by an exception, which
\* is not start()'s doing).
C37_StartAfterStopRuns ==
    tm_restart = <<tm_stops>> => ~tm_stop /\ tm_pc \in LoopPhases \cup {"crashed"}

\* C38: a poll cycle whose force_refresh has returned, that is whose refresh
\* has committed its snapshot (the poller is in lines 132-140 of
\* on_get_price or in the pre-warm upsert called from there), ends only by
\* starting the alert pass; and however a cycle ends, the poller is left idle,
\* without a frame and without the cache lock, free for the next slot's cycle.
C38_CommittedCycleStartsAlertPass ==
    [][(pc["poller"] # "idle" /\ pc'["poller"] = "idle") =>
          /\ (pc["poller"] = "p_spawn" \/ InStack(stack["poller"], "p_spawn")) =>
                 pending_pass' = pending_pass + 1
          /\ stack'["poller"] = <<>>
          /\ lock_owner' # "poller"]_vars

\* C39: a TimerScheduler built on a schedule of no daily requests and started
\* has no slot, fires nothing and calls no callback, and its loop thread is
\* alive until stop() has been called: it has ended only with the stop event
\* set.
C39_EmptyScheduleIdles ==
    (sched.status = "ok" /\ sched.daily_requests = 0 /\ tm_pc \notin {"none", "built"}) =>
        /\ tm_times.daily_times = <<>>
        /\ tm_queue = <<>>
        /\ tm_fired = {}
        /\ tm_last_cb = "none"
        /\ \/ tm_pc \in LoopPhases \ {"fire", "callback"}
           \/ tm_pc = "exited" /\ tm_stop

====
